---- MODULE Spec2Model ----
(***************************************************************************)
(* Model of the retrieval-augmented query pipeline of corporate-ai-chatbot *)
(*   error_handler.py : ChatbotException, handle_exception, retry_on_error *)
(*   llm_client.py    : generate_embedding / generate_response /           *)
(*                      generate_fallback_response                         *)
(*   vector_store.py  : upsert_documents, search, delete_namespace,        *)
(*                      extract_context_from_matches                       *)
(*   base_agent.py    : BaseAgent.process_query                            *)
(*   load_documents.py: DocumentLoader (chunking and ingestion)            *)
(*   telegram_bot.py  : TelegramBot (handlers)                             *)
(*                                                                         *)
(* Strings are sequences of characters, messages are sequences of message  *)
(* parts, similarity scores are integers in hundredths (0.7 is 70), and    *)
(* delays are whole time units (delay = 1.0 is 1).                         *)
(***************************************************************************)
EXTENDS Integers, Sequences, FiniteSets, TLC

VARIABLES
    call,       \* the decorated function being run by the retry wrapper, with its arguments
    wrap,       \* the local state of retry_on_error's async_wrapper for that call
    net,        \* number of requests issued to each external backend so far
    index,      \* the external vector index: a set of stored records, each in one namespace
    live,       \* history: for each namespace, the ids upserted into it and not deleted since
    pq,         \* the local state of BaseAgent.process_query (one query)
    parked,     \* the call, wrapper and request counts of the coroutine that is not running
    isolated,   \* history: each namespace as the operations called with it alone make it
    loader,     \* the local state of DocumentLoader.load_text_file (one file)
    bot         \* the Telegram bot: its allow-list, its user_agents and the last update handled

vars == <<call, wrap, net, index, live, pq, parked, isolated, loader, bot>>

\* The state of what is not running: the parked coroutine, the loader and
\* the bot.
elsewhere == <<parked, loader, bot>>

(***************************************************************************)
(* Bounds of the model                                                     *)
(***************************************************************************)
MaxRetriesArg == 4      \* retry_on_error(max_retries = 0 .. MaxRetriesArg)
MaxDelayArg == 2        \* retry_on_error(delay = 1 .. MaxDelayArg)
MaxTextLen == 2         \* texts and queries have at most this many characters

(***************************************************************************)
(* error_handler.py : error codes and exceptions                           *)
(***************************************************************************)
UNKNOWN_ERROR == "E001"
OPENAI_API_ERROR == "E101"
PINECONE_API_ERROR == "E201"
INVALID_QUERY == "E402"
OPENAI_RATE_LIMIT == "E102"
NO_DATA_FOUND == "E401"
AGENT_NOT_FOUND == "E501"
UNAUTHORIZED_USER == "E601"

\* A details dict restricted to the keys the pipeline ever stores in it.  An
\* absent key is "" (strings), -1 (numbers) or << >> (message texts).
NoDetails ==
    [function |-> "", max_retries |-> -1, attempts |-> -1, agent_type |-> "",
     original_error |-> << >>, error_type |-> ""]

\* ChatbotException.__init__: details or {}
ChatbotException(message, error_code, details) ==
    [cls |-> "ChatbotException", chatbot |-> TRUE, message |-> message,
     error_code |-> error_code, details |-> details]

OpenAIException(message) ==
    [ChatbotException(message, OPENAI_API_ERROR, NoDetails) EXCEPT !.cls = "OpenAIException"]

PineconeException(message) ==
    [ChatbotException(message, PINECONE_API_ERROR, NoDetails) EXCEPT !.cls = "PineconeException"]

\* An exception that is not a ChatbotException (raised by a backend or by Python).
OtherException(cls, message) ==
    [cls |-> cls, chatbot |-> FALSE, message |-> message, error_code |-> "",
     details |-> NoDetails]

\* last_exception = None, as handle_exception sees it: str(None), type(None).__name__
NoneValue == OtherException("NoneType", <<"None">>)

\* str(error)
Str(error) == error.message

\* What the index answers to a request carrying a vector of another dimension
\* than its own (raised by the Pinecone client).
DimensionMismatch ==
    OtherException("PineconeApiException",
                   <<"vector dimension does not match the dimension of the index">>)

\* The error is a dimension mismatch, possibly re-raised by an except clause
\* as "<operation> failed: <text of the error>".
IsDimensionMismatch(e) == e.message # << >> /\ e.message[Len(e.message)] = DimensionMismatch.message[1]

\* The context dict the retry wrapper passes to handle_exception.
RetryContext(func, max_retries) ==
    [NoDetails EXCEPT !.function = func, !.max_retries = max_retries,
                      !.attempts = max_retries]

\* The context dict process_query passes to handle_exception.
AgentContext(agent_type) == [NoDetails EXCEPT !.agent_type = agent_type]

\* A mutant: every error is wrapped anew, typed ones included.
handle_exception_AlwaysWraps(error, context) ==
    ChatbotException(Str(error), UNKNOWN_ERROR,
        [context EXCEPT !.original_error = Str(error), !.error_type = error.cls])

handle_exception(error, context) ==
    IF error.chatbot
    THEN error
    ELSE ChatbotException(Str(error), UNKNOWN_ERROR,
             [context EXCEPT !.original_error = Str(error), !.error_type = error.cls])

\* ChatbotException.get_user_message: one fixed message per classified code,
\* the generic message for every other code.
\* A mutant: the message is chosen from what went wrong (a rate limit is told
\* as a rate limit), whatever code the error carries.
get_user_message_ByCause(error) ==
    CASE error.message # << >> /\ error.message[Len(error.message)] = "rate limit exceeded"
                                               -> "msg_openai_rate_limit"
      [] OTHER                                 -> "msg_generic"

get_user_message(error) ==
    CASE error.error_code = NO_DATA_FOUND      -> "msg_no_data_found"
      [] error.error_code = OPENAI_API_ERROR   -> "msg_openai_api_error"
      [] error.error_code = OPENAI_RATE_LIMIT  -> "msg_openai_rate_limit"
      [] error.error_code = PINECONE_API_ERROR -> "msg_pinecone_api_error"
      [] error.error_code = INVALID_QUERY      -> "msg_invalid_query"
      [] error.error_code = UNAUTHORIZED_USER  -> "msg_unauthorized_user"
      [] error.error_code = AGENT_NOT_FOUND    -> "msg_agent_not_found"
      [] OTHER                                 -> "msg_generic"

(***************************************************************************)
(* error_handler.py : retry_on_error.async_wrapper                         *)
(*                                                                         *)
(* An attempt outcome is [ok |-> TRUE, value |-> v] or                     *)
(* [ok |-> FALSE, error |-> e].                                            *)
(***************************************************************************)
Returned(v) == [ok |-> TRUE, value |-> v, error |-> NoneValue]
Raised(e) == [ok |-> FALSE, value |-> << >>, error |-> e]

\* The wrapper's locals on entry; with range(max_retries) empty the loop is
\* skipped and handle_exception(None, ...) is raised at once.
WrapperEntry(func, max_retries, delay) ==
    [func |-> func, max_retries |-> max_retries, delay |-> delay,
     attempt |-> 0, slept |-> << >>, last_exception |-> NoneValue,
     status |-> IF max_retries > 0 THEN "running" ELSE "raised",
     value |-> << >>,
     raised |-> IF max_retries > 0 THEN NoneValue
                ELSE handle_exception(NoneValue, RetryContext(func, max_retries))]

\* A mutant: one attempt too many (range(max_retries + 1)).
WrapperAfterAttempt_OneMore(w, out) ==
    IF out.ok
    THEN [w EXCEPT !.status = "returned", !.value = out.value]
    ELSE IF w.attempt < w.max_retries
         THEN [w EXCEPT !.last_exception = out.error,
                        !.slept = Append(@, w.delay * (w.attempt + 1)),
                        !.attempt = @ + 1]
         ELSE [w EXCEPT !.last_exception = out.error,
                        !.attempt = @ + 1, !.status = "raised",
                        !.raised = handle_exception(out.error,
                                       RetryContext(w.func, w.max_retries))]

\* A mutant: constant delay between attempts (time.sleep(delay)).
WrapperAfterAttempt_ConstantDelay(w, out) ==
    IF out.ok
    THEN [w EXCEPT !.status = "returned", !.value = out.value]
    ELSE IF w.attempt < w.max_retries - 1
         THEN [w EXCEPT !.last_exception = out.error,
                        !.slept = Append(@, w.delay),
                        !.attempt = @ + 1]
         ELSE [w EXCEPT !.last_exception = out.error,
                        !.attempt = @ + 1, !.status = "raised",
                        !.raised = handle_exception(out.error,
                                       RetryContext(w.func, w.max_retries))]

\* A mutant: failures that are already typed chatbot errors are not retried.
WrapperAfterAttempt_NoRetryOfTyped(w, out) ==
    IF out.ok
    THEN [w EXCEPT !.status = "returned", !.value = out.value]
    ELSE IF w.attempt < w.max_retries - 1 /\ ~out.error.chatbot
         THEN [w EXCEPT !.last_exception = out.error,
                        !.slept = Append(@, w.delay * (w.attempt + 1)),
                        !.attempt = @ + 1]
         ELSE [w EXCEPT !.last_exception = out.error,
                        !.attempt = @ + 1, !.status = "raised",
                        !.raised = handle_exception(out.error,
                                       RetryContext(w.func, w.max_retries))]

\* A mutant: the wrapper sleeps after every attempt, a successful one included.
WrapperAfterAttempt_SleepsAlways(w, out) ==
    IF out.ok
    THEN [w EXCEPT !.status = "returned", !.value = out.value,
                   !.slept = Append(@, w.delay * (w.attempt + 1))]
    ELSE IF w.attempt < w.max_retries - 1
         THEN [w EXCEPT !.last_exception = out.error,
                        !.slept = Append(@, w.delay * (w.attempt + 1)),
                        !.attempt = @ + 1]
         ELSE [w EXCEPT !.last_exception = out.error,
                        !.attempt = @ + 1, !.status = "raised",
                        !.raised = handle_exception(out.error,
                                       RetryContext(w.func, w.max_retries))]

\* A mutant: a dimension mismatch is fatal: it is raised without a retry.
WrapperAfterAttempt_FatalOnMismatch(w, out) ==
    IF out.ok
    THEN [w EXCEPT !.status = "returned", !.value = out.value]
    ELSE IF w.attempt < w.max_retries - 1 /\ ~IsDimensionMismatch(out.error)
         THEN [w EXCEPT !.last_exception = out.error,
                        !.slept = Append(@, w.delay * (w.attempt + 1)),
                        !.attempt = @ + 1]
         ELSE [w EXCEPT !.last_exception = out.error,
                        !.attempt = @ + 1, !.status = "raised",
                        !.raised = handle_exception(out.error,
                                       RetryContext(w.func, w.max_retries))]

\* One pass of the loop body, given the outcome of `await func(...)`:
\* return on success; on failure remember the exception, sleep
\* delay * (attempt + 1) unless this was the last attempt, and after the last
\* attempt raise handle_exception(last_exception, ...).
WrapperAfterAttempt(w, out) ==
    IF out.ok
    THEN [w EXCEPT !.status = "returned", !.value = out.value]
    ELSE IF w.attempt < w.max_retries - 1
         THEN [w EXCEPT !.last_exception = out.error,
                        !.slept = Append(@, w.delay * (w.attempt + 1)),
                        !.attempt = @ + 1]
         ELSE [w EXCEPT !.last_exception = out.error,
                        !.attempt = @ + 1, !.status = "raised",
                        !.raised = handle_exception(out.error,
                                       RetryContext(w.func, w.max_retries))]

RECURSIVE SumSeq(_)
SumSeq(s) == IF s = << >> THEN 0 ELSE Head(s) + SumSeq(Tail(s))

Min(a, b) == IF a < b THEN a ELSE b

\* The sum of the numbers of a sequence of sequences.
RECURSIVE SumAll(_)
SumAll(ss) == IF ss = << >> THEN 0 ELSE SumSeq(Head(ss)) + SumAll(Tail(ss))

Range(s) == {s[i] : i \in DOMAIN s}

(***************************************************************************)
(* Texts.  str.strip() removes leading and trailing whitespace.            *)
(***************************************************************************)
Chars == {" ", "a"}

\* The characters str.strip() removes.
Whitespace == {" ", "\n"}

Texts == UNION {[1..n -> Chars] : n \in 0..MaxTextLen}

RECURSIVE lstrip(_)
lstrip(t) == IF t # << >> /\ Head(t) \in Whitespace THEN lstrip(Tail(t)) ELSE t

RECURSIVE rstrip(_)
rstrip(t) ==
    IF t # << >> /\ t[Len(t)] \in Whitespace THEN rstrip(SubSeq(t, 1, Len(t) - 1)) ELSE t

strip(t) == rstrip(lstrip(t))

(***************************************************************************)
(* External backends.  A request to a backend either answers or raises an  *)
(* exception that is not a ChatbotException.                               *)
(***************************************************************************)
BackendErrors ==
    {OtherException("RateLimitError", <<"rate limit exceeded">>),
     OtherException("TimeoutError", <<"request timed out">>)}

\* The outcome of one request: answered, or failed with an error.
BackendOk == [failed |-> FALSE, error |-> NoneValue]
BackendFail(e) == [failed |-> TRUE, error |-> e]
BackendOutcomes == {BackendOk} \cup {BackendFail(e) : e \in BackendErrors}

\* `calls` counts the invocations of the function the retry wrapper is running.
NoRequests == [calls |-> 0, embed |-> 0, query |-> 0, upsert |-> 0, generate |-> 0]

(***************************************************************************)
(* llm_client.py                                                           *)
(* Every operation returns [out, net]: the outcome of the attempt and the  *)
(* number of requests it issued to its backend.                            *)
(***************************************************************************)
\* The vector of a text: the embedding model is a function of the stripped text.
EmbeddingOf(t) == <<"embedding of">> \o t

\* A mutant: the text is not checked for emptiness before the backend call.
generate_embedding_NoEmptyCheck(text, backend) ==
    IF ~backend.failed
    THEN [out |-> Returned(EmbeddingOf(strip(text))), net |-> 1]
    ELSE [out |-> Raised(OpenAIException(
                     <<"Embedding generation failed">> \o Str(backend.error))),
          net |-> 1]

\* A mutant: the empty text is reported under the code of an invalid query.
generate_embedding_InvalidQueryCode(text, backend) ==
    IF strip(text) = << >>
    THEN [out |-> Raised(ChatbotException(<<"Empty text provided for embedding">>,
                                          INVALID_QUERY, NoDetails)),
          net |-> 0]
    ELSE IF ~backend.failed
         THEN [out |-> Returned(EmbeddingOf(strip(text))), net |-> 1]
         ELSE [out |-> Raised(OpenAIException(
                          <<"Embedding generation failed">> \o Str(backend.error))),
               net |-> 1]

\* generate_embedding: strip, reject the empty text, call aembed_query; every
\* exception (the empty-text one included) is re-raised as an OpenAIException.
generate_embedding(text, backend) ==
    IF strip(text) = << >>
    THEN [out |-> Raised(OpenAIException(
                     <<"Embedding generation failed">>
                         \o Str(OpenAIException(<<"Empty text provided for embedding">>)))),
          net |-> 0]
    ELSE IF ~backend.failed
         THEN [out |-> Returned(EmbeddingOf(strip(text))), net |-> 1]
         ELSE [out |-> Raised(OpenAIException(
                          <<"Embedding generation failed">> \o Str(backend.error))),
               net |-> 1]

\* The text the chat model generates (response.generations[0][0].text.strip()).
GeneratedText == <<"generated answer">>

WARNING == "not grounded in the knowledge base"

\* generate_response: grounded answer from the context.
generate_response(query, context, backend) ==
    IF ~backend.failed
    THEN [out |-> Returned(GeneratedText), net |-> 1]
    ELSE [out |-> Raised(OpenAIException(
                     <<"Response generation failed">> \o Str(backend.error))),
          net |-> 1]

\* A mutant: the fallback answer is returned without the warning.
generate_fallback_response_NoWarning(query, backend) ==
    IF ~backend.failed
    THEN [out |-> Returned(GeneratedText), net |-> 1]
    ELSE [out |-> Raised(OpenAIException(
                     <<"Fallback response generation failed">> \o Str(backend.error))),
          net |-> 1]

\* generate_fallback_response: answer without context, warning appended.
generate_fallback_response(query, backend) ==
    IF ~backend.failed
    THEN [out |-> Returned(Append(GeneratedText, WARNING)), net |-> 1]
    ELSE [out |-> Raised(OpenAIException(
                     <<"Fallback response generation failed">> \o Str(backend.error))),
          net |-> 1]

(***************************************************************************)
(* config.py : settings                                                   *)
(***************************************************************************)
top_k_results == 5
similarity_threshold == 70
batch_size == 100
max_response_time == 3
pinecone_dimension == 1536

(***************************************************************************)
(* The external vector index.  A stored record is                          *)
(* [ns, id, values, metadata]; the vector `values` is represented by its   *)
(* cosine similarity (in hundredths) to the embedding of the query.        *)
(***************************************************************************)
Namespaces == {"finance", "legal"}

FullKeys == {"id", "embedding", "metadata"}

\* `dim` is len(embedding), kept apart because the vector itself is
\* represented by its similarity to the query.
Doc(id, values, text) ==
    [keys |-> FullKeys, id |-> id, embedding |-> values,
     metadata |-> [text |-> text, source |-> "policy.txt"],
     dim |-> pinecone_dimension]

\* The documents callers pass to upsert_documents; the last one lacks 'embedding'.
Documents ==
    {Doc("d1", 90, <<"a">>), Doc("d2", 75, <<"a">>), Doc("d3", 60, <<"a">>),
     Doc("d3", 70, <<"a">>),
     [Doc("d2", 75, <<"a">>) EXCEPT !.keys = {"id", "metadata"}]}

MaxDocs == 2            \* a document list has at most this many documents
MaxTopKArg == 2         \* search(top_k = None, 1 .. MaxTopKArg)

DocLists == UNION {[1..n -> Documents] : n \in 0..MaxDocs}

\* index.upsert(vectors = batch, namespace = ns): a record with the same id in
\* the same namespace is overwritten.
IndexUpsert(idx, batch, ns) ==
    LET lastOf == {k \in DOMAIN batch :
                      \A j \in DOMAIN batch : j > k => batch[j].id # batch[k].id}
    IN  {r \in idx : ~(r.ns = ns /\ \E i \in DOMAIN batch : batch[i].id = r.id)}
        \cup {[ns |-> ns, id |-> batch[i].id, values |-> batch[i].values,
               metadata |-> batch[i].metadata] : i \in lastOf}

\* index.delete(delete_all = True, namespace = ns)
IndexDeleteAll(idx, ns) == {r \in idx : r.ns # ns}

\* index.query(vector, top_k, namespace, include_metadata = True): the possible
\* responses: the top_k records of the namespace nearest to the query vector,
\* nearest first (records of equal score in either order).
IndexQuery(idx, ns, top_k) ==
    LET recs == {r \in idx : r.ns = ns}
        n == Min(top_k, Cardinality(recs))
    IN  {s \in [1..n -> recs] :
            /\ \A i, j \in 1..n : i < j => s[i] # s[j] /\ s[i].values >= s[j].values
            /\ \A r \in recs \ Range(s) : \A i \in 1..n : s[i].values >= r.values}

\* The dimensions a vector handed to the index may have: the one the index
\* was created with, or another one (an embedding model of another size).
Dimensions == {pinecone_dimension, 2 * pinecone_dimension}

\* match.metadata of a record that was stored without metadata: None.
NoMetadata == [none |-> TRUE]

\* The match objects of a response, as search reads them.
MatchOf(r) == [id |-> r.id, score |-> r.values, metadata |-> r.metadata]

(***************************************************************************)
(* vector_store.py                                                         *)
(***************************************************************************)
\* vectors[i : i + batch_size] for i in range(0, len(vectors), batch_size)
RECURSIVE Batches(_, _)
Batches(vectors, size) ==
    IF vectors = << >> THEN << >>
    ELSE IF Len(vectors) <= size THEN <<vectors>>
    ELSE <<SubSeq(vectors, 1, size)>> \o Batches(SubSeq(vectors, size + 1, Len(vectors)), size)

\* The index after the first k batches were written, in order.
RECURSIVE WriteBatches(_, _, _, _)
WriteBatches(idx, batches, k, ns) ==
    IF k = 0 THEN idx
    ELSE IndexUpsert(WriteBatches(idx, batches, k - 1, ns), batches[k], ns)

RECURSIVE CountDocs(_, _)
CountDocs(batches, k) == IF k = 0 THEN 0 ELSE CountDocs(batches, k - 1) + Len(batches[k])

\* upsert_documents, one attempt.  `failAt` = 0: every index.upsert answers;
\* failAt = k > 0: the k-th index.upsert raises `err` (the k - 1 batches before
\* it stay written).  Returns [out, index, net].
upsert_documents(documents, namespace, idx, failAt, err) ==
    IF documents = << >>
    THEN [out |-> Raised(PineconeException(
                     <<"Failed to upsert documents">>
                         \o Str(PineconeException(<<"No documents provided for upsert">>)))),
          index |-> idx, net |-> 0]
    ELSE IF \E i \in DOMAIN documents : ~(FullKeys \subseteq documents[i].keys)
    THEN [out |-> Raised(PineconeException(
                     <<"Failed to upsert documents">>
                         \o Str(PineconeException(<<"Invalid document format">>)))),
          index |-> idx, net |-> 0]
    ELSE LET vectors == [i \in DOMAIN documents |->
                            [id |-> documents[i].id, values |-> documents[i].embedding,
                             metadata |-> documents[i].metadata]]
             batches == Batches(vectors, batch_size)
         IN  IF failAt = 0 \/ failAt > Len(batches)
             THEN [out |-> Returned(CountDocs(batches, Len(batches))),
                   index |-> WriteBatches(idx, batches, Len(batches), namespace),
                   net |-> Len(batches)]
             ELSE [out |-> Raised(PineconeException(
                              <<"Failed to upsert documents">> \o Str(err))),
                   index |-> WriteBatches(idx, batches, failAt - 1, namespace),
                   net |-> failAt]

\* for match in results.matches: if match.score >= similarity_threshold: append
RECURSIVE FilterMatches(_)
FilterMatches(raw) ==
    IF raw = << >> THEN << >>
    ELSE IF Head(raw).score >= similarity_threshold
         THEN <<Head(raw)>> \o FilterMatches(Tail(raw))
         ELSE FilterMatches(Tail(raw))

\* top_k = top_k or settings.top_k_results   (None is modelled as 0)
EffectiveTopK(top_k) == IF top_k = 0 THEN top_k_results ELSE top_k

\* The outcome of one index.query request.
QueryOk(s) == [failed |-> FALSE, error |-> NoneValue, matches |-> s]
QueryFail(e) == [failed |-> TRUE, error |-> e, matches |-> << >>]

\* A mutant: the namespace argument is not passed on to index.query, which
\* then answers from the records of every namespace.
index_query_IgnoresNamespace(idx, namespace, top_k) ==
    {QueryFail(e) : e \in BackendErrors}
        \cup {QueryOk(s) : s \in IndexQuery({[r EXCEPT !.ns = namespace] : r \in idx},
                                            namespace, EffectiveTopK(top_k))}

\* The first half of search: index.query(vector, top_k, namespace, ...) in the
\* executor.  The possible outcomes of the request: a backend error, or one
\* of the index's responses for that namespace and top_k.
index_query(idx, namespace, top_k) ==
    {QueryFail(e) : e \in BackendErrors}
        \cup {QueryOk(s) : s \in IndexQuery(idx, namespace, EffectiveTopK(top_k))}

\* The outcomes of index.query for a query vector of dimension `dim`: the
\* index rejects a vector of another dimension than its own.
index_query_outcomes(dim, outcomes) ==
    IF dim = pinecone_dimension
    THEN outcomes
    ELSE {o \in outcomes : o.failed} \cup {QueryFail(DimensionMismatch)}

\* A mutant: a match whose score equals the threshold is dropped (> for >=).
search_StrictThreshold(response) ==
    IF response.failed
    THEN [out |-> Raised(PineconeException(<<"Vector search failed">> \o Str(response.error))),
          raw |-> << >>, net |-> 1]
    ELSE LET raw == [i \in DOMAIN response.matches |-> MatchOf(response.matches[i])]
         IN  [out |-> Returned(SelectSeq(raw, LAMBDA m : m.score > similarity_threshold)),
              raw |-> raw, net |-> 1]

\* A mutant: an empty result is reported as an error (NoDataFoundException
\* style), which the blanket except re-raises as a PineconeException.
search_RaisesWhenEmpty(response) ==
    IF response.failed
    THEN [out |-> Raised(PineconeException(<<"Vector search failed">> \o Str(response.error))),
          raw |-> << >>, net |-> 1]
    ELSE LET raw == [i \in DOMAIN response.matches |-> MatchOf(response.matches[i])]
         IN  IF FilterMatches(raw) = << >>
             THEN [out |-> Raised(PineconeException(
                              <<"Vector search failed">> \o <<"No data found">>)),
                   raw |-> raw, net |-> 1]
             ELSE [out |-> Returned(FilterMatches(raw)), raw |-> raw, net |-> 1]

\* The second half of search, one attempt, given the outcome of index.query:
\* keep the matches at or above the threshold; every exception is re-raised
\* as a PineconeException.  Returns [out, raw, net], raw being the matches of
\* the response before filtering.
search(response) ==
    IF response.failed
    THEN [out |-> Raised(PineconeException(<<"Vector search failed">> \o Str(response.error))),
          raw |-> << >>, net |-> 1]
    ELSE LET raw == [i \in DOMAIN response.matches |-> MatchOf(response.matches[i])]
         IN  [out |-> Returned(FilterMatches(raw)), raw |-> raw, net |-> 1]

\* metadata.get(...) on the metadata of a match that has none.
NoneHasNoGet ==
    OtherException("AttributeError", <<"'NoneType' object has no attribute 'get'">>)

\* extract_context_from_matches raises: match.get('metadata', {}) is None for
\* some match, and None has no .get.
extract_context_raises(matches) ==
    \E i \in DOMAIN matches : matches[i].metadata = NoMetadata

\* A mutant: a match without a text gets a context item too.
extract_context_from_matches_KeepsTextless(matches) ==
    [i \in DOMAIN matches |->
        [text |-> matches[i].metadata.text, source |-> matches[i].metadata.source,
         score |-> matches[i].score]]

\* extract_context_from_matches: one context item per match that has a text.
RECURSIVE extract_context_from_matches(_)
extract_context_from_matches(matches) ==
    IF matches = << >> THEN << >>
    ELSE LET m == Head(matches)
         IN  (IF m.metadata.text # << >>
              THEN <<[text |-> m.metadata.text, source |-> m.metadata.source,
                      score |-> m.score]>>
              ELSE << >>) \o extract_context_from_matches(Tail(matches))

(***************************************************************************)
(* State of the model                                                      *)
(***************************************************************************)
\* The decorators of llm_client.py and vector_store.py:
\* @retry_on_error(max_retries=3, delay=1.0)
decorator_max_retries == 3
decorator_delay == 1

\* The locals of upsert_documents' batch loop, for a call followed write by
\* write: `i` batches are done, `inflight` are the requests (positions in
\* `writes`) issued and not yet answered, `writes` are the index.upsert
\* requests issued by the running attempt, in the order of issue.  Between
\* two attempts pc is "idle" and i, total_upserted are what the attempt that
\* just failed had reached.
LoopIdle ==
    [pc |-> "idle", i |-> 0, inflight |-> {}, total_upserted |-> 0, writes |-> << >>]

\* `idx0` is history: the index as it was when the call was made; `dim` is
\* the dimension of the query vector given to search.
NoCall ==
    [func |-> "none", text |-> << >>, documents |-> << >>, namespace |-> "",
     top_k |-> 0, context |-> << >>, raw |-> << >>, answered |-> FALSE,
     loop |-> LoopIdle, idx0 |-> {}, dim |-> pinecone_dimension]

WrapperIdle == [WrapperEntry("none", 1, 1) EXCEPT !.status = "idle"]

NoResult ==
    [success |-> FALSE, answer |-> << >>, agent_type |-> "", response_type |-> "",
     num_sources |-> 0, similarity_scores |-> << >>, sources |-> << >>,
     error |-> << >>, error_code |-> "", user_message |-> ""]

\* `slept` is history: for each decorated call of the query that ended, the
\* time.sleep waits of its retry wrapper, in seconds, and `ended` how the call
\* ended (returned or raised).  `requested` and `woken` are the position of
\* the coroutine inside the retry loop, for the specification that follows
\* it await by await: the attempt whose backend request was issued last, and
\* the attempt before which time.sleep returned last.  `warned` is the log:
\* log_performance wrote its "Response time exceeded" warning for this query.
PQIdle ==
    [pc |-> "idle", agent_type |-> "", namespace |-> "", query |-> << >>,
     matches |-> << >>, context |-> << >>, response_type |-> "", result |-> NoResult,
     slept |-> << >>, ended |-> << >>, warned |-> FALSE,
     requested |-> << >>, woken |-> << >>]

\* duration = time.time() - start_time, in seconds: the time the query spent
\* asleep in its retry wrappers (the backends themselves answer at once).
Duration(slept) == SumAll(slept)

\* log_performance: TRUE iff the warning is logged.
log_performance(duration) == duration > max_response_time

\* The Telegram users of the model, and what stands for "no entry" in
\* user_agents and "no call of process_query" in the record of an update.
Users == {1, 2}
NoAgent == "none"

\* self.agents of the bot.
BotAgents == {"finance", "legal", "project"}

\* The update handled last: its kind, its sender, its data (the command's
\* agent, the button's callback data or nothing), the reply sent and the
\* agent whose process_query was called (NoAgent if none was).
NoUpdate == [kind |-> "", user |-> 0, data |-> "", reply |-> "", called |-> NoAgent]

\* TelegramBot.__init__: user_agents = {}.  `allowed` and `admins` are
\* settings.get_allowed_user_ids() and settings.get_admin_user_ids();
\* `chosen` is history: what each user asked for last (an agent, or NoAgent
\* after /back and before any choice).
BotIdle ==
    [allowed |-> {}, admins |-> {}, user_agents |-> [u \in Users |-> NoAgent],
     chosen |-> [u \in Users |-> NoAgent], last |-> NoUpdate]

\* A coroutine that runs no call.
NoTask == [call |-> NoCall, wrap |-> WrapperIdle, net |-> NoRequests, pq |-> PQIdle]

\* The files on disk: a name and a text.
File(name, text) == [name |-> name, text |-> text]

\* load_text_file is not running.  `history` keeps, for each call that
\* returned, the number of chunks it skipped and the ids the namespace held.
LoaderIdle ==
    [pc |-> "idle", file |-> File("", << >>), namespace |-> "", chunks |-> << >>,
     openings |-> << >>, k |-> 0, documents |-> << >>, skipped |-> 0, result |-> -1,
     history |-> << >>, outcomes |-> << >>, handed |-> << >>]

\* The agents: BaseAgent(agent_type, namespace), one namespace per agent.
Agents ==
    {[agent_type |-> "finance", namespace |-> "finance"],
     [agent_type |-> "legal", namespace |-> "legal"]}

Stored(ns, id, values, text) ==
    [ns |-> ns, id |-> id, values |-> values,
     metadata |-> [text |-> text, source |-> "policy.txt"]]

\* The contents the index may have when a query arrives: any subset of these
\* records (the record "d4" was stored without a text in its metadata, the
\* record "d5" without any metadata).
SeedRecords ==
    {Stored("finance", "d1", 90, <<"a">>), Stored("finance", "d3", 60, <<"a">>),
     Stored("finance", "d4", 75, << >>), Stored("legal", "d2", 75, <<"a">>),
     [ns |-> "legal", id |-> "d5", values |-> 80, metadata |-> NoMetadata]}

LiveOf(idx) == [ns \in Namespaces |-> {r.id : r \in {x \in idx : x.ns = ns}}]

\* One more invocation of the running function, which issued k requests.
AddRequests(n, kind, k) == [n EXCEPT !.calls = @ + 1, ![kind] = @ + k]

(***************************************************************************)
(* The decorated functions, one action per attempt                         *)
(***************************************************************************)
\* One attempt of generate_embedding under the retry wrapper.
AttemptEmbedding ==
    /\ call.func = "generate_embedding"
    /\ wrap.status = "running"
    /\ \E backend \in BackendOutcomes :
          LET r == generate_embedding(call.text, backend)
          IN  /\ wrap' = WrapperAfterAttempt(wrap, r.out)
              /\ net' = AddRequests(net, "embed", r.net)
    /\ UNCHANGED <<call, index, live, pq, isolated, elsewhere>>

\* One attempt of search under the retry wrapper.
AttemptSearch ==
    /\ call.func = "search"
    /\ wrap.status = "running"
    /\ \E response \in index_query_outcomes(call.dim,
                          index_query(index, call.namespace, call.top_k)) :
          LET r == search(response)
          IN  /\ wrap' = WrapperAfterAttempt(wrap, r.out)
              /\ call' = [call EXCEPT !.raw = r.raw, !.answered = ~response.failed]
              /\ net' = AddRequests(net, "query", r.net)
    /\ UNCHANGED <<index, live, pq, isolated, elsewhere>>

\* One attempt of generate_response under the retry wrapper.
AttemptGenerate ==
    /\ call.func = "generate_response"
    /\ wrap.status = "running"
    /\ \E backend \in BackendOutcomes :
          LET r == generate_response(call.text, call.context, backend)
          IN  /\ wrap' = WrapperAfterAttempt(wrap, r.out)
              /\ net' = AddRequests(net, "generate", r.net)
    /\ UNCHANGED <<call, index, live, pq, isolated, elsewhere>>

\* One attempt of generate_fallback_response under the retry wrapper.
AttemptFallback ==
    /\ call.func = "generate_fallback_response"
    /\ wrap.status = "running"
    /\ \E backend \in BackendOutcomes :
          LET r == generate_fallback_response(call.text, backend)
          IN  /\ wrap' = WrapperAfterAttempt(wrap, r.out)
              /\ net' = AddRequests(net, "generate", r.net)
    /\ UNCHANGED <<call, index, live, pq, isolated, elsewhere>>

\* The ids written by an attempt of upsert_documents that issued `writes`
\* requests of which the last one failed iff `failed`.
WrittenIds(documents, writes, failed) ==
    LET done == IF failed THEN writes - 1 ELSE writes
    IN  {documents[i].id : i \in {k \in DOMAIN documents : k <= done * batch_size}}

\* One attempt of upsert_documents under the retry wrapper.
AttemptUpsert ==
    /\ call.func = "upsert_documents"
    /\ wrap.status = "running"
    /\ \E failAt \in 0..Len(Batches(call.documents, batch_size)), err \in BackendErrors :
          LET r == upsert_documents(call.documents, call.namespace, index, failAt, err)
          IN  /\ wrap' = WrapperAfterAttempt(wrap, r.out)
              /\ index' = r.index
              /\ isolated' = upsert_documents(call.documents, call.namespace, isolated,
                                              failAt, err).index
              /\ live' = [live EXCEPT ![call.namespace] =
                             @ \cup WrittenIds(call.documents, r.net, ~r.out.ok)]
              /\ net' = AddRequests(net, "upsert", r.net)
    /\ UNCHANGED <<call, pq, elsewhere>>

(***************************************************************************)
(* base_agent.py : BaseAgent.process_query                                 *)
(***************************************************************************)
StartCall(func, text, documents, namespace, top_k, context) ==
    [func |-> func, text |-> text, documents |-> documents, namespace |-> namespace,
     top_k |-> top_k, context |-> context, raw |-> << >>, answered |-> FALSE,
     loop |-> LoopIdle, idx0 |-> {}, dim |-> pinecone_dimension]

\* A mutant: the except clause handles only errors that are not typed chatbot
\* errors and lets the typed ones through to the caller.
process_query_except_OnlyUntyped(p, e) ==
    IF e.chatbot
    THEN [p EXCEPT !.pc = "escaped"]
    ELSE LET error == handle_exception(e, AgentContext(p.agent_type))
         IN  [p EXCEPT !.pc = "done",
                       !.result = [NoResult EXCEPT !.error = Str(error),
                                                   !.error_code = error.error_code,
                                                   !.agent_type = p.agent_type,
                                                   !.user_message = get_user_message(error)]]

\* except Exception as e: the structured error returned for an exception
\* raised anywhere in the try block.
process_query_except(p, e) ==
    LET error == handle_exception(e, AgentContext(p.agent_type))
    IN  [p EXCEPT !.pc = "done",
                  !.warned = log_performance(Duration(p.slept)),
                  !.result = [NoResult EXCEPT !.error = Str(error),
                                              !.error_code = error.error_code,
                                              !.agent_type = p.agent_type,
                                              !.user_message = get_user_message(error)]]

\* process_query is entered: step 1, llm_client.generate_embedding(query).
ProcessQuery ==
    /\ pq.pc = "idle"
    /\ call.func = "none"
    /\ \E agent \in Agents, query \in Texts :
          /\ pq' = [PQIdle EXCEPT !.pc = "embed", !.agent_type = agent.agent_type,
                                  !.namespace = agent.namespace, !.query = query]
          /\ call' = StartCall("generate_embedding", query, << >>, "", 0, << >>)
    /\ wrap' = WrapperEntry("generate_embedding", decorator_max_retries, decorator_delay)
    /\ net' = NoRequests
    /\ UNCHANGED <<index, live, isolated, elsewhere>>

\* A mutant: the search is started without awaiting the embedding.
PQSearch_BeforeEmbedding ==
    /\ pq.pc = "embed"
    /\ wrap.status \in {"running", "returned"}
    /\ pq' = [pq EXCEPT !.pc = "search", !.slept = Append(@, wrap.slept),
                        !.ended = Append(@, [func |-> call.func, status |-> wrap.status])]
    /\ call' = StartCall("search", wrap.value, << >>, pq.namespace, 0, << >>)
    /\ wrap' = WrapperEntry("search", decorator_max_retries, decorator_delay)
    /\ net' = [net EXCEPT !.calls = 0]
    /\ UNCHANGED <<index, live, isolated, elsewhere>>

\* Step 2: vector_store.search(query_embedding, namespace = self.namespace).
PQSearch ==
    /\ pq.pc = "embed"
    /\ wrap.status = "returned"
    /\ pq' = [pq EXCEPT !.pc = "search", !.slept = Append(@, wrap.slept),
                        !.ended = Append(@, [func |-> call.func, status |-> wrap.status])]
    /\ call' = StartCall("search", wrap.value, << >>, pq.namespace, 0, << >>)
    /\ wrap' = WrapperEntry("search", decorator_max_retries, decorator_delay)
    /\ net' = [net EXCEPT !.calls = 0]
    /\ UNCHANGED <<index, live, isolated, elsewhere>>

\* A mutant: the branch always takes the grounded path.
BranchOn_AlwaysGrounded(context) == "knowledge_base"

\* if context: ... response_type = "knowledge_base" else: ... "fallback"
BranchOn(context) == IF context # << >> THEN "knowledge_base" ELSE "fallback"

\* Steps 3 and 4: extract the context and branch on it: generate_response
\* when the context is non-empty, generate_fallback_response otherwise.  An
\* exception raised by the extraction goes to the except clause.
PQBranch ==
    /\ pq.pc = "search"
    /\ wrap.status = "returned"
    /\ IF extract_context_raises(wrap.value)
       THEN /\ pq' = process_query_except([pq EXCEPT !.slept = Append(@, wrap.slept),
                        !.ended = Append(@, [func |-> call.func, status |-> wrap.status])],
                                           NoneHasNoGet)
            /\ UNCHANGED <<call, wrap>>
       ELSE LET matches == wrap.value
                context == extract_context_from_matches(matches)
                func == IF BranchOn(context) = "knowledge_base"
                        THEN "generate_response" ELSE "generate_fallback_response"
            IN  /\ pq' = [pq EXCEPT !.pc = "generate", !.matches = matches,
                                    !.context = context,
                                    !.response_type = BranchOn(context),
                                    !.slept = Append(@, wrap.slept),
                        !.ended = Append(@, [func |-> call.func, status |-> wrap.status])]
                /\ call' = StartCall(func, pq.query, << >>, "", 0,
                                     IF func = "generate_response" THEN context ELSE << >>)
                /\ wrap' = WrapperEntry(func, decorator_max_retries, decorator_delay)
    /\ net' = [net EXCEPT !.calls = 0]
    /\ UNCHANGED <<index, live, isolated, elsewhere>>

\* A mutant: num_sources counts the matches instead of the context items.
SuccessResult_CountsMatches(p, answer) ==
    [NoResult EXCEPT !.success = TRUE, !.answer = answer, !.agent_type = p.agent_type,
                     !.response_type = p.response_type,
                     !.num_sources = Len(p.matches),
                     !.similarity_scores = [i \in DOMAIN p.matches |-> p.matches[i].score],
                     !.sources = [i \in DOMAIN p.matches |-> p.matches[i].metadata.source]]

\* Step 5: the result dict of a successful query.
SuccessResult(p, answer) ==
    [NoResult EXCEPT !.success = TRUE, !.answer = answer, !.agent_type = p.agent_type,
                     !.response_type = p.response_type,
                     !.num_sources = Len(p.context),
                     !.similarity_scores = [i \in DOMAIN p.matches |-> p.matches[i].score],
                     !.sources = [i \in DOMAIN p.matches |-> p.matches[i].metadata.source]]

\* A mutant: a query that is over the response-time target when its answer
\* arrives is abandoned instead of returned.
PQReturn_Deadline ==
    /\ pq.pc = "generate"
    /\ wrap.status = "returned"
    /\ ~log_performance(Duration(Append(pq.slept, wrap.slept)))
    /\ pq' = [pq EXCEPT !.pc = "done", !.result = SuccessResult(pq, wrap.value),
                        !.slept = Append(@, wrap.slept),
                        !.ended = Append(@, [func |-> call.func, status |-> wrap.status])]
    /\ UNCHANGED <<call, wrap, net, index, live, isolated, elsewhere>>

\* Step 5: log the duration and return the result.
PQReturn ==
    /\ pq.pc = "generate"
    /\ wrap.status = "returned"
    /\ pq' = [pq EXCEPT !.pc = "done", !.result = SuccessResult(pq, wrap.value),
                        !.slept = Append(@, wrap.slept),
                        !.ended = Append(@, [func |-> call.func, status |-> wrap.status]),
                        !.warned = log_performance(Duration(Append(pq.slept, wrap.slept)))]
    /\ UNCHANGED <<call, wrap, net, index, live, isolated, elsewhere>>

\* A mutant: when the grounded generation fails, the query falls back to the
\* generation without context instead of failing.
PQExcept_FallsBack ==
    /\ pq.pc \in {"embed", "search", "generate"}
    /\ wrap.status = "raised"
    /\ IF call.func = "generate_response"
       THEN /\ pq' = [pq EXCEPT !.response_type = "fallback",
                                !.slept = Append(@, wrap.slept),
                                !.ended = Append(@, [func |-> call.func,
                                                     status |-> wrap.status])]
            /\ call' = StartCall("generate_fallback_response", pq.query, << >>, "", 0,
                                 << >>)
            /\ wrap' = WrapperEntry("generate_fallback_response",
                                    decorator_max_retries, decorator_delay)
            /\ net' = [net EXCEPT !.calls = 0]
            /\ UNCHANGED <<index, live, isolated, elsewhere>>
       ELSE /\ pq' = process_query_except(
                         [pq EXCEPT !.slept = Append(@, wrap.slept),
                                    !.ended = Append(@, [func |-> call.func,
                                                         status |-> wrap.status])],
                         wrap.raised)
            /\ UNCHANGED <<call, wrap, net, index, live, isolated, elsewhere>>

\* except Exception as e: an exception of a decorated call ends the query.
PQExcept ==
    /\ pq.pc \in {"embed", "search", "generate"}
    /\ wrap.status = "raised"
    /\ pq' = process_query_except([pq EXCEPT !.slept = Append(@, wrap.slept),
                        !.ended = Append(@, [func |-> call.func, status |-> wrap.status])],
                                  wrap.raised)
    /\ UNCHANGED <<call, wrap, net, index, live, isolated, elsewhere>>

(***************************************************************************)
(* Spec: one query through process_query, against any seeded index         *)
(***************************************************************************)
Init ==
    /\ call = NoCall
    /\ wrap = WrapperIdle
    /\ net = NoRequests
    /\ index \in SUBSET SeedRecords
    /\ live = LiveOf(index)
    /\ pq = PQIdle
    /\ parked = NoTask
    /\ bot = BotIdle
    /\ isolated = index
    /\ loader = LoaderIdle

Next ==
    \/ ProcessQuery
    \/ AttemptEmbedding
    \/ PQSearch
    \/ AttemptSearch
    \/ PQBranch
    \/ AttemptGenerate
    \/ AttemptFallback
    \/ PQReturn
    \/ PQExcept

Spec == Init /\ [][Next]_vars

\* Every backend call eventually returns, and the event loop resumes a
\* coroutine whose awaited call has ended: a step of the query that can be
\* taken is eventually taken.
Resumes ==
    \/ AttemptEmbedding
    \/ PQSearch
    \/ AttemptSearch
    \/ PQBranch
    \/ AttemptGenerate
    \/ AttemptFallback
    \/ PQReturn
    \/ PQExcept

SpecLive == Init /\ [][Next]_vars /\ WF_vars(Resumes)

(***************************************************************************)
(* Direct calls of the decorated functions                                 *)
(***************************************************************************)
\* What a decorated function `op` may do on one attempt: return, raise a
\* typed chatbot error, or raise any other exception.
OpErrors == BackendErrors \cup {OpenAIException(<<"typed failure">>)}

\* The outcomes of the k-th invocation of op: what op returns may differ from
\* one invocation to the next.
OpOutcomes(k) == {Returned(<<"result of invocation", k>>)} \cup {Raised(e) : e \in OpErrors}

\* retry_on_error(max_retries, delay)(op)() is called.
CallOp ==
    /\ call.func = "none"
    /\ pq.pc = "idle"
    /\ \E max_retries \in 0..MaxRetriesArg, delay \in 1..MaxDelayArg :
          wrap' = WrapperEntry("op", max_retries, delay)
    /\ call' = StartCall("op", << >>, << >>, "", 0, << >>)
    /\ net' = NoRequests
    /\ UNCHANGED <<index, live, pq, isolated, elsewhere>>

\* One attempt of op under the retry wrapper.
AttemptOp ==
    /\ call.func = "op"
    /\ wrap.status = "running"
    /\ \E out \in OpOutcomes(net.calls + 1) : wrap' = WrapperAfterAttempt(wrap, out)
    /\ net' = [net EXCEPT !.calls = @ + 1]
    /\ UNCHANGED <<call, index, live, pq, isolated, elsewhere>>

\* llm_client.generate_embedding(text) is called (by the ingestion driver).
CallEmbedding ==
    /\ call.func = "none"
    /\ pq.pc = "idle"
    /\ \E text \in Texts :
          call' = StartCall("generate_embedding", text, << >>, "", 0, << >>)
    /\ wrap' = WrapperEntry("generate_embedding", decorator_max_retries, decorator_delay)
    /\ net' = NoRequests
    /\ UNCHANGED <<index, live, pq, isolated, elsewhere>>

\* vector_store.upsert_documents(documents, namespace) is called.
CallUpsert ==
    /\ call.func = "none"
    /\ pq.pc = "idle"
    /\ \E documents \in DocLists, namespace \in Namespaces :
          call' = StartCall("upsert_documents", << >>, documents, namespace, 0, << >>)
    /\ wrap' = WrapperEntry("upsert_documents", decorator_max_retries, decorator_delay)
    /\ net' = NoRequests
    /\ UNCHANGED <<index, live, pq, isolated, elsewhere>>

\* vector_store.search(query_embedding, namespace, top_k) is called with one
\* of the values `top_ks` of top_k.
SearchCalled(top_ks) ==
    /\ call.func = "none"
    /\ pq.pc = "idle"
    /\ \E namespace \in Namespaces, top_k \in top_ks :
          call' = StartCall("search", << >>, << >>, namespace, top_k, << >>)
    /\ wrap' = WrapperEntry("search", decorator_max_retries, decorator_delay)
    /\ net' = NoRequests
    /\ UNCHANGED <<index, live, pq, isolated, elsewhere>>

\* vector_store.search(query_embedding, namespace, top_k) is called.
CallSearch == SearchCalled(0..MaxTopKArg)

\* A mutant: the namespace argument is not passed on, and index.delete works
\* on the namespace "default".
delete_namespace_DefaultNamespace(namespace, idx, backend) ==
    IF ~backend.failed
    THEN [out |-> Returned(<<"None">>), index |-> IndexDeleteAll(idx, "default")]
    ELSE [out |-> Raised(PineconeException(
                     <<"Failed to delete namespace">> \o Str(backend.error))),
          index |-> idx]

\* delete_namespace: index.delete(delete_all = True, namespace); a failure is
\* re-raised as a PineconeException.  Returns [out, index].
delete_namespace(namespace, idx, backend) ==
    IF ~backend.failed
    THEN [out |-> Returned(<<"None">>), index |-> IndexDeleteAll(idx, namespace)]
    ELSE [out |-> Raised(PineconeException(
                     <<"Failed to delete namespace">> \o Str(backend.error))),
          index |-> idx]

\* The record of a call of a function that is not decorated: one call, no retry.
Undecorated(func, out) ==
    [WrapperIdle EXCEPT !.func = func,
                        !.status = IF out.ok THEN "returned" ELSE "raised",
                        !.value = out.value, !.raised = out.error,
                        !.last_exception = out.error]

\* vector_store.delete_namespace(namespace) is called and runs to its end.
DeleteNamespace ==
    /\ call.func = "none"
    /\ pq.pc = "idle"
    /\ \E namespace \in Namespaces, backend \in BackendOutcomes :
          LET r == delete_namespace(namespace, index, backend)
          IN  /\ call' = [StartCall("delete_namespace", << >>, << >>, namespace, 0, << >>)
                              EXCEPT !.idx0 = index]
              /\ wrap' = Undecorated("delete_namespace", r.out)
              /\ index' = r.index
              /\ isolated' = IF r.out.ok THEN IndexDeleteAll(isolated, namespace) ELSE isolated
              /\ live' = IF r.out.ok THEN [live EXCEPT ![namespace] = {}] ELSE live
    /\ net' = [NoRequests EXCEPT !.calls = 1]
    /\ UNCHANGED <<pq, elsewhere>>

\* get_stats: index.describe_index_stats(); a failure is re-raised as a
\* PineconeException.
get_stats(idx, backend) ==
    IF ~backend.failed
    THEN Returned([total_vectors |-> Cardinality(idx),
                   namespaces |-> [ns \in Namespaces |->
                                      Cardinality({r \in idx : r.ns = ns})],
                   dimension |-> pinecone_dimension])
    ELSE Raised(PineconeException(<<"Failed to get index stats">> \o Str(backend.error)))

\* vector_store.get_stats() is called and runs to its end.
GetStats ==
    /\ call.func = "none"
    /\ pq.pc = "idle"
    /\ \E backend \in BackendOutcomes :
          wrap' = Undecorated("get_stats", get_stats(index, backend))
    /\ call' = StartCall("get_stats", << >>, << >>, "", 0, << >>)
    /\ net' = [NoRequests EXCEPT !.calls = 1]
    /\ UNCHANGED <<index, live, pq, isolated, elsewhere>>

\* The call has returned to (or raised into) its caller.
CallEnd ==
    /\ call.func # "none"
    /\ pq.pc = "idle"
    /\ wrap.status \in {"returned", "raised"}
    /\ call' = NoCall
    /\ wrap' = WrapperIdle
    /\ net' = NoRequests
    /\ UNCHANGED <<index, live, pq, isolated, elsewhere>>

(***************************************************************************)
(* vector_store.py : upsert_documents followed write by write.  An attempt *)
(* is entered (validation), then each batch is issued to the executor and  *)
(* awaited before the next one, then the count is returned.                *)
(***************************************************************************)
\* [doc] * n
Fill(doc, n) == [i \in 1..n |-> doc]

\* Document lists around the batch boundaries: a run of one valid document
\* that ends at or next to a boundary, followed by at most one more document
\* (99, 100, 101, 200 and 201 documents), besides the short lists.
FillSizes == {batch_size - 1, batch_size, 2 * batch_size}

FillDocs == {Doc("d1", 90, <<"a">>), Doc("d3", 60, <<"a">>)}

Tails == {<< >>} \cup {<<d>> : d \in Documents}

BulkLists ==
    DocLists \cup {Fill(a, n) \o tail : a \in FillDocs, n \in FillSizes, tail \in Tails}

\* A mutant: only the documents of the first batch are validated up front.
prepare_vectors_FirstBatchOnly(documents) ==
    IF documents = << >>
    THEN [ok |-> FALSE, vectors |-> << >>,
          error |-> PineconeException(<<"No documents provided for upsert">>)]
    ELSE IF \E i \in DOMAIN documents :
               i <= batch_size /\ ~(FullKeys \subseteq documents[i].keys)
    THEN [ok |-> FALSE, vectors |-> << >>,
          error |-> PineconeException(<<"Invalid document format">>)]
    ELSE [ok |-> TRUE, error |-> NoneValue,
          vectors |-> [i \in DOMAIN documents |->
                          [id |-> documents[i].id, values |-> documents[i].embedding,
                           metadata |-> documents[i].metadata, dim |-> documents[i].dim]]]

\* The validation and the preparation of the vectors, before the first write:
\* the whole list is looked at, and a missing key raises.
prepare_vectors(documents) ==
    IF documents = << >>
    THEN [ok |-> FALSE, vectors |-> << >>,
          error |-> PineconeException(<<"No documents provided for upsert">>)]
    ELSE IF \E i \in DOMAIN documents : ~(FullKeys \subseteq documents[i].keys)
    THEN [ok |-> FALSE, vectors |-> << >>,
          error |-> PineconeException(<<"Invalid document format">>)]
    ELSE [ok |-> TRUE, error |-> NoneValue,
          vectors |-> [i \in DOMAIN documents |->
                          [id |-> documents[i].id, values |-> documents[i].embedding,
                           metadata |-> documents[i].metadata, dim |-> documents[i].dim]]]

\* except Exception as e: raise PineconeException(f"Failed to upsert documents: {e}")
upsert_except(e) == PineconeException(<<"Failed to upsert documents">> \o Str(e))

\* A mutant: a retry resumes at the batch that failed instead of the first one.
loop_entry_Resumes(previous) ==
    [LoopIdle EXCEPT !.pc = "loop", !.i = previous.i,
                     !.total_upserted = previous.total_upserted]

\* The loop's locals when an attempt has passed the validation:
\* total_upserted = 0 and i at the first batch, whatever a previous attempt did.
loop_entry(previous) == [LoopIdle EXCEPT !.pc = "loop"]

\* A mutant: every remaining batch is issued at once (asyncio.gather style).
next_writes_AllAtOnce(loop, nbatches) ==
    IF loop.inflight = {} /\ loop.i < nbatches THEN (loop.i + 1)..nbatches ELSE {}

\* The batches whose index.upsert is issued next: the one after the i batches
\* done, and only when no request of this call is awaited.
next_writes(loop, nbatches) ==
    IF loop.inflight = {} /\ loop.i < nbatches THEN {loop.i + 1} ELSE {}

\* A mutant: the batches are written to the namespace "legal" whatever
\* namespace the call was given.
write_request_FixedNamespace(batch, namespace) == [vectors |-> batch, namespace |-> "legal"]

\* index.upsert(vectors = batch, namespace = namespace)
write_request(batch, namespace) == [vectors |-> batch, namespace |-> namespace]

\* The possible outcomes of index.upsert(vectors, namespace): the index
\* rejects a batch that holds a vector of another dimension than its own.
index_upsert_outcomes(request) ==
    IF \A j \in DOMAIN request.vectors : request.vectors[j].dim = pinecone_dimension
    THEN BackendOutcomes
    ELSE {BackendFail(e) : e \in BackendErrors \cup {DimensionMismatch}}

\* vector_store.upsert_documents(documents, namespace) is called with one of
\* the lists `lists`.
UpsertCalled(lists) ==
    /\ call.func = "none"
    /\ pq.pc = "idle"
    /\ \E documents \in lists, namespace \in Namespaces :
          call' = [StartCall("upsert_documents", << >>, documents, namespace, 0, << >>)
                      EXCEPT !.idx0 = index]
    /\ wrap' = WrapperEntry("upsert_documents", decorator_max_retries, decorator_delay)
    /\ net' = NoRequests
    /\ UNCHANGED <<index, live, pq, isolated, elsewhere>>

\* upsert_documents is called with a list that may span several batches.
CallUpsertBulk == UpsertCalled(BulkLists)

\* Documents whose embedding may have another dimension than the index, and
\* the lists made of them; the last list has its mismatched vector in the
\* second batch.
DimDocs ==
    {Doc("d1", 90, <<"a">>),
     [Doc("d2", 75, <<"a">>) EXCEPT !.dim = 2 * pinecone_dimension]}

DimLists ==
    UNION {[1..n -> DimDocs] : n \in 1..MaxDocs}
        \cup {Fill(Doc("d1", 90, <<"a">>), batch_size)
                  \o <<[Doc("d2", 75, <<"a">>) EXCEPT !.dim = 2 * pinecone_dimension]>>}

\* upsert_documents is called with embeddings of either dimension.
CallUpsertDim == UpsertCalled(DimLists)

\* vector_store.search(query_embedding, namespace) is called with a query
\* vector of either dimension.
CallSearchVector ==
    /\ call.func = "none"
    /\ pq.pc = "idle"
    /\ \E namespace \in Namespaces, dim \in Dimensions :
          call' = [StartCall("search", << >>, << >>, namespace, 0, << >>)
                      EXCEPT !.dim = dim, !.idx0 = index]
    /\ wrap' = WrapperEntry("search", decorator_max_retries, decorator_delay)
    /\ net' = NoRequests
    /\ UNCHANGED <<index, live, pq, isolated, elsewhere>>

\* An attempt begins: the documents are validated and the vectors prepared.
UpsertEnter ==
    /\ call.func = "upsert_documents"
    /\ wrap.status = "running"
    /\ call.loop.pc = "idle"
    /\ LET p == prepare_vectors(call.documents)
       IN  IF p.ok
           THEN /\ call' = [call EXCEPT !.loop = loop_entry(call.loop)]
                /\ wrap' = wrap
           ELSE /\ call' = call
                /\ wrap' = WrapperAfterAttempt(wrap, Raised(upsert_except(p.error)))
    /\ net' = [net EXCEPT !.calls = @ + 1]
    /\ UNCHANGED <<index, live, pq, isolated, elsewhere>>

\* The next batch is handed to the executor.
UpsertIssue ==
    /\ call.func = "upsert_documents"
    /\ wrap.status = "running"
    /\ call.loop.pc = "loop"
    /\ LET batches == Batches(prepare_vectors(call.documents).vectors, batch_size)
           ks == next_writes(call.loop, Len(batches))
           first == Len(call.loop.writes)
       IN  /\ ks # {}
           /\ call' = [call EXCEPT
                  !.loop.writes = @ \o [j \in 1..Cardinality(ks) |->
                                           write_request(batches[call.loop.i + j],
                                                         call.namespace)],
                  !.loop.inflight = @ \cup {first + j : j \in 1..Cardinality(ks)}]
           /\ net' = [net EXCEPT !.upsert = @ + Cardinality(ks)]
    /\ UNCHANGED <<wrap, index, live, pq, isolated, elsewhere>>

\* The awaited index.upsert answers: the batch is written and the loop goes
\* on, or the request failed and the attempt ends in the except clause.
UpsertComplete ==
    /\ call.func = "upsert_documents"
    /\ wrap.status = "running"
    /\ \E k \in call.loop.inflight :
       \E backend \in index_upsert_outcomes(call.loop.writes[k]) :
          LET request == call.loop.writes[k]
          IN  IF ~backend.failed
              THEN /\ index' = IndexUpsert(index, request.vectors, request.namespace)
                   /\ isolated' = IndexUpsert(isolated, request.vectors, call.namespace)
                   /\ live' = [live EXCEPT ![call.namespace] =
                                   @ \cup {request.vectors[j].id : j \in DOMAIN request.vectors}]
                   /\ call' = [call EXCEPT
                          !.loop.inflight = @ \ {k},
                          !.loop.i = @ + 1,
                          !.loop.total_upserted = @ + Len(request.vectors)]
                   /\ wrap' = wrap
              ELSE /\ index' = index
                   /\ isolated' = isolated
                   /\ live' = live
                   /\ call' = [call EXCEPT !.loop = [LoopIdle EXCEPT !.i = call.loop.i,
                                       !.total_upserted = call.loop.total_upserted]]
                   /\ wrap' = WrapperAfterAttempt(wrap, Raised(upsert_except(backend.error)))
    /\ UNCHANGED <<net, pq, elsewhere>>

\* The loop is over: return total_upserted.
UpsertReturn ==
    /\ call.func = "upsert_documents"
    /\ wrap.status = "running"
    /\ call.loop.pc = "loop"
    /\ call.loop.inflight = {}
    /\ call.loop.i = Len(Batches(prepare_vectors(call.documents).vectors, batch_size))
    /\ wrap' = WrapperAfterAttempt(wrap, Returned(call.loop.total_upserted))
    /\ call' = [call EXCEPT !.loop.pc = "idle"]
    /\ UNCHANGED <<net, index, live, pq, isolated, elsewhere>>

(***************************************************************************)
(* load_documents.py : DocumentLoader.  The text of a file is kept as a    *)
(* sequence of runs, a run [c, n] being n times the character c, no two     *)
(* neighbouring runs of the same character.                                *)
(***************************************************************************)
chunk_size == 1000
chunk_overlap == 200

Run(c, n) == [c |-> c, n |-> n]

\* len(t)
RECURSIVE TextLen(_)
TextLen(t) == IF t = << >> THEN 0 ELSE Head(t).n + TextLen(Tail(t))

\* t + u
Join(t, u) ==
    IF t = << >> THEN u
    ELSE IF u = << >> THEN t
    ELSE IF t[Len(t)].c = u[1].c
         THEN SubSeq(t, 1, Len(t) - 1) \o <<Run(u[1].c, t[Len(t)].n + u[1].n)>> \o Tail(u)
         ELSE t \o u

RECURSIVE TextLStrip(_)
TextLStrip(t) == IF t # << >> /\ Head(t).c \in Whitespace THEN TextLStrip(Tail(t)) ELSE t

RECURSIVE TextRStrip(_)
TextRStrip(t) ==
    IF t # << >> /\ t[Len(t)].c \in Whitespace
    THEN TextRStrip(SubSeq(t, 1, Len(t) - 1))
    ELSE t

\* t.strip()
TextStrip(t) == TextRStrip(TextLStrip(t))

\* t[-k:]
RECURSIVE TakeLast(_, _)
TakeLast(t, k) ==
    IF k = 0 \/ t = << >> THEN << >>
    ELSE LET r == t[Len(t)]
         IN  IF r.n >= k
             THEN <<Run(r.c, k)>>
             ELSE TakeLast(SubSeq(t, 1, Len(t) - 1), k - r.n) \o <<r>>

\* t[:k]
RECURSIVE TakeFirst(_, _)
TakeFirst(t, k) ==
    IF k = 0 \/ t = << >> THEN << >>
    ELSE LET r == Head(t)
         IN  IF r.n >= k
             THEN <<Run(r.c, k)>>
             ELSE <<r>> \o TakeFirst(Tail(t), k - r.n)

\* A mutant: the empty pieces are kept.
RECURSIVE StrippedNonEmpty_KeepsEmpty(_)
StrippedNonEmpty_KeepsEmpty(pieces) ==
    IF pieces = << >> THEN << >>
    ELSE <<TextStrip(Head(pieces))>> \o StrippedNonEmpty_KeepsEmpty(Tail(pieces))

\* The texts of `pieces` stripped, the empty ones left out.
RECURSIVE StrippedNonEmpty(_)
StrippedNonEmpty(pieces) ==
    IF pieces = << >> THEN << >>
    ELSE LET p == TextStrip(Head(pieces))
         IN  (IF p = << >> THEN << >> ELSE <<p>>) \o StrippedNonEmpty(Tail(pieces))

\* t.split('\n\n'), `cur` being the piece under construction: every two
\* newlines of a run end a piece, and the odd newline left begins the next.
RECURSIVE SplitBlankLines(_, _)
SplitBlankLines(t, cur) ==
    IF t = << >> THEN <<cur>>
    ELSE LET r == Head(t)
         IN  IF r.c = "\n" /\ r.n >= 2
             THEN <<cur>> \o [i \in 1..((r.n \div 2) - 1) |-> << >>]
                      \o SplitBlankLines(Tail(t), IF r.n % 2 = 1 THEN <<Run("\n", 1)>>
                                                                 ELSE << >>)
             ELSE SplitBlankLines(Tail(t), Join(cur, <<r>>))

\* [p.strip() for p in text.split('\n\n') if p.strip()]
Paragraphs(text) == StrippedNonEmpty(SplitBlankLines(text, << >>))

\* The characters of the pattern [.!?]+
SentenceEnds == {".", "!", "?"}

\* re.split(r'[.!?]+', t), `cur` being the piece under construction and
\* `inSep` telling that the previous character belonged to a separator.
RECURSIVE SplitSentenceEnds(_, _, _)
SplitSentenceEnds(t, cur, inSep) ==
    IF t = << >> THEN <<cur>>
    ELSE LET r == Head(t)
         IN  IF r.c \in SentenceEnds
             THEN IF inSep
                  THEN SplitSentenceEnds(Tail(t), cur, TRUE)
                  ELSE <<cur>> \o SplitSentenceEnds(Tail(t), << >>, TRUE)
             ELSE SplitSentenceEnds(Tail(t), Join(cur, <<r>>), FALSE)

\* The sentences of a paragraph, stripped, the empty ones skipped.
Sentences(paragraph) == StrippedNonEmpty(SplitSentenceEnds(paragraph, << >>, FALSE))

\* History: how current_chunk was begun: on which path ("paragraph",
\* "overlap" when seeded with overlap_text, "sentence"), with which seed and
\* with which paragraph or sentence.
Opened(path, overlap_text, piece) ==
    [path |-> path, overlap_text |-> overlap_text, piece |-> piece]

\* chunks.append({'text': current_chunk.strip(), 'metadata': {**metadata,
\* 'chunk_index': chunk_index, 'char_count': len(current_chunk)}})
AppendChunk(st, metadata) ==
    [st EXCEPT !.chunks = Append(@,
                   [text |-> TextStrip(st.current_chunk),
                    metadata |-> [source |-> metadata.source,
                                  chunk_index |-> st.chunk_index,
                                  char_count |-> TextLen(st.current_chunk)]]),
               !.openings = Append(@, st.opened)]

\* A mutant: chunk_index is not incremented after a chunk is saved.
SaveCurrent_SameIndex(st, metadata) ==
    IF st.current_chunk # << >> THEN AppendChunk(st, metadata) ELSE st

\* if current_chunk: append the chunk; chunk_index += 1
SaveCurrent(st, metadata) ==
    IF st.current_chunk # << >>
    THEN [AppendChunk(st, metadata) EXCEPT !.chunk_index = @ + 1]
    ELSE st

\* The body of the loop over the sentences of an oversized paragraph.
AddSentence(st, sentence, metadata) ==
    IF TextLen(st.current_chunk) + TextLen(sentence) < chunk_size
    THEN [st EXCEPT !.current_chunk = Join(@, Join(sentence, <<Run(".", 1), Run(" ", 1)>>)),
                    !.opened = IF st.current_chunk = << >>
                               THEN Opened("sentence", << >>, sentence) ELSE @]
    ELSE [SaveCurrent(st, metadata) EXCEPT
              !.current_chunk = Join(sentence, <<Run(".", 1), Run(" ", 1)>>),
              !.opened = Opened("sentence", << >>, sentence)]

RECURSIVE AddSentences(_, _, _)
AddSentences(st, sentences, metadata) ==
    IF sentences = << >> THEN st
    ELSE AddSentences(AddSentence(st, Head(sentences), metadata), Tail(sentences), metadata)

\* A mutant: a new chunk begins with the paragraph alone, without the end of
\* the chunk before it.
AddParagraph_NoOverlap(st, paragraph, metadata) ==
    IF TextLen(paragraph) > chunk_size
    THEN AddSentences([SaveCurrent(st, metadata) EXCEPT !.current_chunk = << >>],
                      Sentences(paragraph), metadata)
    ELSE IF TextLen(st.current_chunk) + TextLen(paragraph) < chunk_size
         THEN [st EXCEPT !.current_chunk = Join(@, Join(paragraph, <<Run("\n", 2)>>)),
                         !.opened = IF st.current_chunk = << >>
                                    THEN Opened("paragraph", << >>, paragraph) ELSE @]
         ELSE [SaveCurrent(st, metadata) EXCEPT
                  !.current_chunk = Join(paragraph, <<Run("\n", 2)>>),
                  !.opened = Opened(IF st.current_chunk = << >> THEN "paragraph"
                                                                ELSE "overlap",
                                    << >>, paragraph)]

\* A mutant: a paragraph that is not oversized is always added to the
\* current chunk.
AddParagraph_NeverCloses(st, paragraph, metadata) ==
    IF TextLen(paragraph) > chunk_size
    THEN AddSentences([SaveCurrent(st, metadata) EXCEPT !.current_chunk = << >>],
                      Sentences(paragraph), metadata)
    ELSE [st EXCEPT !.current_chunk = Join(@, Join(paragraph, <<Run("\n", 2)>>)),
                    !.opened = IF st.current_chunk = << >>
                               THEN Opened("paragraph", << >>, paragraph) ELSE @]

\* The body of the loop over the paragraphs.
AddParagraph(st, paragraph, metadata) ==
    IF TextLen(paragraph) > chunk_size
    THEN AddSentences([SaveCurrent(st, metadata) EXCEPT !.current_chunk = << >>],
                      Sentences(paragraph), metadata)
    ELSE IF TextLen(st.current_chunk) + TextLen(paragraph) < chunk_size
         THEN [st EXCEPT !.current_chunk = Join(@, Join(paragraph, <<Run("\n", 2)>>)),
                         !.opened = IF st.current_chunk = << >>
                                    THEN Opened("paragraph", << >>, paragraph) ELSE @]
         ELSE LET overlap_text == TakeLast(st.current_chunk, chunk_overlap)
              IN  [SaveCurrent(st, metadata) EXCEPT
                       !.current_chunk = Join(overlap_text,
                                              Join(paragraph, <<Run("\n", 2)>>)),
                       !.opened = Opened(IF st.current_chunk = << >> THEN "paragraph"
                                                                     ELSE "overlap",
                                         overlap_text, paragraph)]

RECURSIVE AddParagraphs(_, _, _)
AddParagraphs(st, paragraphs, metadata) ==
    IF paragraphs = << >> THEN st
    ELSE AddParagraphs(AddParagraph(st, Head(paragraphs), metadata),
                       Tail(paragraphs), metadata)

\* The locals of _split_text_into_chunks when its loop is over and the last
\* chunk is saved.
split_text_locals(text, metadata) ==
    LET st == AddParagraphs([chunks |-> << >>, current_chunk |-> << >>, chunk_index |-> 0,
                             opened |-> Opened("", << >>, << >>), openings |-> << >>],
                            Paragraphs(TextStrip(text)), metadata)
    IN  IF st.current_chunk # << >> THEN AppendChunk(st, metadata) ELSE st

\* _split_text_into_chunks(text, metadata): the list of chunks.
split_text_into_chunks(text, metadata) == split_text_locals(text, metadata).chunks

\* A word of n letters c.
Word(c, n) == <<Run(c, n)>>

\* t1 + t2 + ... for a sequence of texts
RECURSIVE JoinAll(_)
JoinAll(ts) == IF ts = << >> THEN << >> ELSE Join(Head(ts), JoinAll(Tail(ts)))

\* The paragraphs of the files: words shorter than, as long as and longer
\* than chunk_size, paragraphs of several sentences longer than chunk_size,
\* and a paragraph of two lines.
ParagraphPool ==
    {Word("a", 300), Word("a", 600), Word("b", 900),
     Word("a", chunk_size - 1), Word("a", chunk_size), Word("b", chunk_size + 1),
     JoinAll(<<Word("a", 600), Word(".", 1), Word(" ", 1), Word("b", 600), Word(".", 1)>>),
     JoinAll(<<Word("a", 400), Word("?", 1), Word("!", 1), Word(" ", 1), Word("a", 400),
               Word(".", 3), Word("b", 400)>>),
     JoinAll(<<Word("a", 500), Word("\n", 1), Word("b", 300)>>)}

MaxParagraphs == 2      \* a file has at most this many paragraphs

\* What stands between two paragraphs, and around the text of a file.
Separators == {Word("\n", 2), Word("\n", 3)}
Margins == {<< >>, JoinAll(<<Word(" ", 1), Word("\n", 1)>>)}

\* ps[1] + sep + ps[2] + sep + ...
RECURSIVE JoinWith(_, _)
JoinWith(ps, sep) ==
    IF Len(ps) <= 1 THEN JoinAll(ps)
    ELSE Join(Head(ps), Join(sep, JoinWith(Tail(ps), sep)))

\* The texts of the files given to the chunker.
FileTexts ==
    {Join(m, Join(JoinWith(ps, sep), m)) :
        ps \in UNION {[1..n -> ParagraphPool] : n \in 0..MaxParagraphs},
        sep \in Separators, m \in Margins}

\* hashlib.md5(f"{source}_{chunk_index}_{text[:100]}").hexdigest(): the digest
\* is taken as free of collisions and stands as the three parts of its input.
generate_doc_id(text, metadata) ==
    [source |-> metadata.source, chunk_index |-> metadata.chunk_index,
     head |-> TakeFirst(text, 100)]

\* The length of the document of the ingestion scenario.
ScenarioLength == 2500

\* n pieces of equal length (the last one takes the remainder) that make
\* `total` characters together, in alternating letters.
EvenPieces(n, total) ==
    [i \in 1..n |-> Word(IF i % 2 = 1 THEN "a" ELSE "b",
                         (total \div n) + (IF i = n THEN total % n ELSE 0))]

\* Into how many paragraphs, or sentences of one paragraph, the document of
\* the scenario is divided.
PieceCounts == {1, 2, 3, 4, 5, 10}

\* The documents of ScenarioLength characters: n paragraphs with a blank
\* line between them, or one paragraph of n sentences "xxx. xxx. xxx."
ScenarioTexts ==
    {JoinWith(EvenPieces(n, ScenarioLength - 2 * (n - 1)), Word("\n", 2)) :
        n \in PieceCounts}
    \cup {Join(JoinWith(EvenPieces(n, ScenarioLength - 2 * n + 1),
                        <<Run(".", 1), Run(" ", 1)>>), Word(".", 1)) :
              n \in PieceCounts}

\* The files that are split.
ChunkFiles == {File("policy.txt", t) : t \in FileTexts \cup ScenarioTexts}

\* A file is split: one file per behaviour.
InitChunk ==
    /\ call = NoCall
    /\ wrap = WrapperIdle
    /\ net = NoRequests
    /\ index = {}
    /\ live = LiveOf(index)
    /\ pq = PQIdle
    /\ parked = NoTask
    /\ bot = BotIdle
    /\ isolated = index
    /\ \E f \in ChunkFiles : loader = [LoaderIdle EXCEPT !.file = f]

MaxRuns == 2            \* a file is loaded at most this many times

\* load_text_file(file_path, namespace) is called: the file is read and
\* split into chunks.  A file that was loaded is loaded again into the same
\* namespace.
LoadTextFile ==
    /\ loader.pc \in {"idle", "done"}
    /\ Len(loader.history) < MaxRuns
    /\ call.func = "none"
    /\ pq.pc = "idle"
    /\ \E namespace \in (IF loader.pc = "idle" THEN Namespaces ELSE {loader.namespace}) :
          loader' = [loader EXCEPT
              !.pc = "chunks",
              !.namespace = namespace,
              !.chunks = split_text_into_chunks(loader.file.text,
                                                [source |-> loader.file.name]),
              !.openings = split_text_locals(loader.file.text,
                                             [source |-> loader.file.name]).openings,
              !.k = 1, !.documents = << >>, !.skipped = 0, !.result = -1,
              !.outcomes = << >>, !.handed = << >>]
    /\ UNCHANGED <<call, wrap, net, index, live, pq, isolated, parked, bot>>

\* The characters of a text, one by one.
RECURSIVE Expand(_)
Expand(t) ==
    IF t = << >> THEN << >> ELSE [i \in 1..Head(t).n |-> Head(t).c] \o Expand(Tail(t))

\* The runs of a sequence of characters.
Compress(s) ==
    LET starts == {i \in DOMAIN s : i = 1 \/ s[i] # s[i - 1]}
        nth(k) == CHOOSE i \in starts : Cardinality({j \in starts : j < i}) = k - 1
        endOf(i) == IF \E j \in starts : j > i
                    THEN (CHOOSE j \in starts : j > i /\ \A l \in starts : l > i => j <= l) - 1
                    ELSE Len(s)
    IN  [k \in 1..Cardinality(starts) |-> Run(s[nth(k)], endOf(nth(k)) - nth(k) + 1)]

\* A mutant: the id is computed without the chunk's index.
LoaderDocument_IdWithoutIndex(chunk, embedding) ==
    [keys |-> FullKeys,
     id |-> generate_doc_id(chunk.text, [chunk.metadata EXCEPT !.chunk_index = 0]),
     embedding |-> Compress(embedding),
     metadata |-> [source |-> chunk.metadata.source,
                   chunk_index |-> chunk.metadata.chunk_index,
                   char_count |-> chunk.metadata.char_count,
                   text |-> chunk.text],
     dim |-> pinecone_dimension]

\* The document made of a chunk and its embedding:
\* {'id': doc_id, 'embedding': embedding, 'metadata': {**chunk['metadata'], 'text': ...}}
LoaderDocument(chunk, embedding) ==
    [keys |-> FullKeys,
     id |-> generate_doc_id(chunk.text, chunk.metadata),
     embedding |-> Compress(embedding),
     metadata |-> [source |-> chunk.metadata.source,
                   chunk_index |-> chunk.metadata.chunk_index,
                   char_count |-> chunk.metadata.char_count,
                   text |-> chunk.text],
     dim |-> pinecone_dimension]

\* The ids of the records of a namespace.
IdsIn(idx, ns) == {r.id : r \in {x \in idx : x.ns = ns}}

\* The loop over the chunks: llm_client.generate_embedding(chunk['text']) is
\* called for the next chunk.
LoaderEmbed ==
    /\ loader.pc = "chunks"
    /\ loader.k <= Len(loader.chunks)
    /\ call.func = "none"
    /\ call' = StartCall("generate_embedding", Expand(loader.chunks[loader.k].text),
                         << >>, "", 0, << >>)
    /\ wrap' = WrapperEntry("generate_embedding", decorator_max_retries, decorator_delay)
    /\ net' = NoRequests
    /\ loader' = [loader EXCEPT !.pc = "embedding"]
    /\ UNCHANGED <<index, live, pq, isolated, parked, bot>>

\* A mutant: the exception of an embedding ends the loop over the chunks.
LoaderCollect_StopsAtFailure ==
    /\ loader.pc = "embedding"
    /\ wrap.status \in {"returned", "raised"}
    /\ loader' = [loader EXCEPT
           !.pc = "chunks",
           !.k = IF wrap.status = "returned" THEN @ + 1 ELSE Len(loader.chunks) + 1,
           !.documents = IF wrap.status = "returned"
                         THEN Append(@, LoaderDocument(loader.chunks[loader.k], wrap.value))
                         ELSE @,
           !.skipped = IF wrap.status = "returned" THEN @ ELSE @ + 1,
           !.outcomes = Append(@, wrap.status)]
    /\ call' = NoCall
    /\ wrap' = WrapperIdle
    /\ net' = NoRequests
    /\ UNCHANGED <<index, live, pq, isolated, parked, bot>>

\* The embedding call is over: its vector makes a document, or its exception
\* is logged and the chunk is skipped.
LoaderCollect ==
    /\ loader.pc = "embedding"
    /\ wrap.status \in {"returned", "raised"}
    /\ loader' = [loader EXCEPT
           !.pc = "chunks",
           !.k = @ + 1,
           !.documents = IF wrap.status = "returned"
                         THEN Append(@, LoaderDocument(loader.chunks[loader.k], wrap.value))
                         ELSE @,
           !.skipped = IF wrap.status = "returned" THEN @ ELSE @ + 1,
           !.outcomes = Append(@, wrap.status)]
    /\ call' = NoCall
    /\ wrap' = WrapperIdle
    /\ net' = NoRequests
    /\ UNCHANGED <<index, live, pq, isolated, parked, bot>>

\* After the loop: vector_store.upsert_documents(documents, namespace) is
\* called if there are documents, else load_text_file returns 0.
LoaderUpsert ==
    /\ loader.pc = "chunks"
    /\ loader.k > Len(loader.chunks)
    /\ call.func = "none"
    /\ IF loader.documents # << >>
       THEN /\ call' = [StartCall("upsert_documents", << >>, loader.documents,
                                  loader.namespace, 0, << >>) EXCEPT !.idx0 = index]
            /\ wrap' = WrapperEntry("upsert_documents", decorator_max_retries,
                                    decorator_delay)
            /\ loader' = [loader EXCEPT !.pc = "upsert",
                                        !.handed = Append(@, loader.documents)]
       ELSE /\ call' = call
            /\ wrap' = wrap
            /\ loader' = [loader EXCEPT
                   !.pc = "done", !.result = 0,
                   !.history = Append(@, [skipped |-> loader.skipped,
                                          ids |-> IdsIn(index, loader.namespace)])]
    /\ net' = NoRequests
    /\ UNCHANGED <<index, live, pq, isolated, parked, bot>>

\* The upsert is over: load_text_file returns len(documents), or the
\* exception of upsert_documents leaves load_text_file.
LoaderReturn ==
    /\ loader.pc = "upsert"
    /\ wrap.status \in {"returned", "raised"}
    /\ loader' = IF wrap.status = "returned"
                 THEN [loader EXCEPT
                          !.pc = "done", !.result = Len(loader.documents),
                          !.history = Append(@, [skipped |-> loader.skipped,
                                                 ids |-> IdsIn(index, loader.namespace)])]
                 ELSE [loader EXCEPT !.pc = "raised"]
    /\ call' = NoCall
    /\ wrap' = WrapperIdle
    /\ net' = NoRequests
    /\ UNCHANGED <<index, live, pq, isolated, parked, bot>>

\* The files that are loaded: two chunks that begin with the same hundred
\* characters, the chunks of an oversized paragraph, one chunk, no chunk.
IngestFiles ==
    {File("policy.txt", JoinWith(<<Word("a", 600), Word("a", 600)>>, Word("\n", 2))),
     File("policy.txt", JoinAll(<<Word("a", 600), Word(".", 1), Word(" ", 1),
                                  Word("b", 600), Word(".", 1)>>)),
     File("rules.txt", Word("a", 300)),
     File("rules.txt", << >>)}

InitIngest ==
    /\ call = NoCall
    /\ wrap = WrapperIdle
    /\ net = NoRequests
    /\ index = {}
    /\ live = LiveOf(index)
    /\ pq = PQIdle
    /\ parked = NoTask
    /\ bot = BotIdle
    /\ isolated = index
    /\ \E f \in IngestFiles : loader = [LoaderIdle EXCEPT !.file = f]

(***************************************************************************)
(* SpecIngest: a file is loaded into a namespace of the empty index, and   *)
(* loaded again                                                            *)
(***************************************************************************)
NextIngest ==
    \/ LoadTextFile
    \/ LoaderEmbed
    \/ AttemptEmbedding
    \/ LoaderCollect
    \/ LoaderUpsert
    \/ UpsertEnter
    \/ UpsertIssue
    \/ UpsertComplete
    \/ UpsertReturn
    \/ LoaderReturn

SpecIngest == InitIngest /\ [][NextIngest]_vars

(***************************************************************************)
(* SpecChunk: one file is read and split into chunks                       *)
(***************************************************************************)
NextChunk == LoadTextFile

SpecChunk == InitChunk /\ [][NextChunk]_vars

InitEmpty ==
    /\ call = NoCall
    /\ wrap = WrapperIdle
    /\ net = NoRequests
    /\ index = {}
    /\ live = LiveOf(index)
    /\ pq = PQIdle
    /\ parked = NoTask
    /\ bot = BotIdle
    /\ isolated = index
    /\ loader = LoaderIdle

(***************************************************************************)
(* SpecRetry: one call of a decorated function under the retry wrapper     *)
(***************************************************************************)
NextRetry ==
    \/ CallOp
    \/ AttemptOp
    \/ CallEmbedding
    \/ AttemptEmbedding
    \/ CallUpsert
    \/ AttemptUpsert

SpecRetry == InitEmpty /\ [][NextRetry]_vars

(***************************************************************************)
(* SpecIndex: any sequence of upserts, searches and namespace deletions    *)
(***************************************************************************)
NextIndex ==
    \/ CallUpsert
    \/ AttemptUpsert
    \/ CallSearch
    \/ AttemptSearch
    \/ DeleteNamespace
    \/ GetStats
    \/ CallEnd

SpecIndex == InitEmpty /\ [][NextIndex]_vars

(***************************************************************************)
(* SpecBatch: one upsert_documents call, followed write by write, against  *)
(* an index that may already hold records                                  *)
(***************************************************************************)
BatchSeeds == {Stored("finance", "d3", 60, <<"a">>), Stored("finance", "d4", 75, << >>)}

InitBatch ==
    /\ call = NoCall
    /\ wrap = WrapperIdle
    /\ net = NoRequests
    /\ index \in SUBSET BatchSeeds
    /\ live = LiveOf(index)
    /\ pq = PQIdle
    /\ parked = NoTask
    /\ bot = BotIdle
    /\ isolated = index
    /\ loader = LoaderIdle

NextBatch ==
    \/ CallUpsertBulk
    \/ UpsertEnter
    \/ UpsertIssue
    \/ UpsertComplete
    \/ UpsertReturn

SpecBatch == InitBatch /\ [][NextBatch]_vars

(***************************************************************************)
(* SpecDim: one upsert or search whose vectors may have another dimension  *)
(* than the index, against any seeded index                                *)
(***************************************************************************)
NextDim ==
    \/ CallSearchVector
    \/ AttemptSearch
    \/ CallUpsertDim
    \/ UpsertEnter
    \/ UpsertIssue
    \/ UpsertComplete
    \/ UpsertReturn

SpecDim == Init /\ [][NextDim]_vars

(***************************************************************************)
(* SpecConc: two coroutines on one VectorStore.  Each runs one operation   *)
(* on its own namespace; the event loop passes control from one to the     *)
(* other at any await (an executor call, the wrapper's sleep).             *)
(***************************************************************************)
\* The lists upserted here: one batch, and two batches with a second write
\* of the first batch's id.
ConcLists ==
    {<<Doc("d1", 90, <<"a">>)>>,
     Fill(Doc("d3", 60, <<"a">>), batch_size) \o <<Doc("d3", 75, << >>)>>}

\* One record in each namespace.
ConcSeeds == {Stored("finance", "d3", 60, <<"a">>), Stored("legal", "d1", 90, <<"a">>)}

InitConc ==
    /\ call = NoCall
    /\ wrap = WrapperIdle
    /\ net = NoRequests
    /\ index = ConcSeeds
    /\ live = LiveOf(index)
    /\ pq = PQIdle
    /\ parked = NoTask
    /\ bot = BotIdle
    /\ isolated = index
    /\ loader = LoaderIdle

\* The running coroutine is at an await: it has not begun or is over, or its
\* request is with the executor (run_in_executor in upsert_documents and
\* search).  The wrapper's wait between two attempts is time.sleep, which
\* does not yield.
AtAwait ==
    \/ call.func = "none"
    \/ wrap.status \in {"returned", "raised"}
    \/ call.func = "search"
    \/ call.func = "upsert_documents" /\ call.loop.inflight # {}

\* The running coroutine is suspended at an await and the other one resumes.
Switch ==
    /\ pq.pc = "idle"
    /\ AtAwait
    /\ parked' = [call |-> call, wrap |-> wrap, net |-> net, pq |-> pq]
    /\ call' = parked.call
    /\ wrap' = parked.wrap
    /\ net' = parked.net
    /\ UNCHANGED <<index, live, pq, isolated, loader, bot>>

\* The operation just called is on another namespace than the one the
\* parked coroutine works on.
OtherNamespace == call'.namespace # parked.call.namespace

NextConc ==
    \/ UpsertCalled(ConcLists) /\ OtherNamespace
    \/ UpsertEnter
    \/ UpsertIssue
    \/ UpsertComplete
    \/ UpsertReturn
    \/ SearchCalled({0}) /\ OtherNamespace
    \/ AttemptSearch
    \/ DeleteNamespace /\ OtherNamespace
    \/ Switch

SpecConc == InitConc /\ [][NextConc]_vars

(***************************************************************************)
(* SpecLoop: two queries on one event loop, followed await by await.  One  *)
(* coroutine runs (call, wrap, net, pq), the other is parked.  An attempt  *)
(* of a decorated call is split at the await of its backend request; the   *)
(* wrapper's wait after a failed attempt is a step of its own.             *)
(***************************************************************************)
\* The attempt the running coroutine is at: the number of the decorated call
\* within the query and the wrapper's loop variable.
AttemptId == <<Len(pq.ended) + 1, wrap.attempt>>

\* The coroutine is inside the wrapper's loop.
InProgress == pq.pc \in {"embed", "search", "generate"} /\ wrap.status = "running"

\* The coroutine is in time.sleep(delay * (attempt + 1)): the attempt before
\* this one failed and the sleep has not returned.
Sleeping == InProgress /\ wrap.attempt > 0 /\ pq.woken # AttemptId

\* The coroutine is at the await of the backend request of this attempt:
\* aembed_query, run_in_executor(index.query) or agenerate.
AtBackend == InProgress /\ pq.requested = AttemptId

\* The function raises before it reaches its await: generate_embedding with
\* an empty text.
RaisesBeforeAwait == call.func = "generate_embedding" /\ strip(call.text) = << >>

\* The running function issues its backend request and awaits the answer.
LoopRequest ==
    /\ InProgress /\ ~Sleeping /\ ~AtBackend
    /\ ~RaisesBeforeAwait
    /\ pq' = [pq EXCEPT !.requested = AttemptId]
    /\ UNCHANGED <<call, wrap, net, index, live, isolated, elsewhere>>

\* The attempt ends: the backend answers the awaited request, or the function
\* raises without having awaited anything.
LoopAttempt ==
    /\ AtBackend \/ (InProgress /\ ~Sleeping /\ RaisesBeforeAwait)
    /\ AttemptEmbedding \/ AttemptSearch \/ AttemptGenerate \/ AttemptFallback

\* time.sleep returns.
LoopWake ==
    /\ Sleeping
    /\ pq' = [pq EXCEPT !.woken = AttemptId]
    /\ UNCHANGED <<call, wrap, net, index, live, isolated, elsewhere>>

\* A mutant: the wait between two attempts is an await (asyncio.sleep).
Suspended_SleepYields == pq.pc \in {"idle", "done"} \/ AtBackend \/ Sleeping

\* The running coroutine is suspended, or is not running a query: the event
\* loop may run another coroutine.  time.sleep is not an await.
Suspended == pq.pc \in {"idle", "done"} \/ AtBackend

\* The event loop resumes the other coroutine.
Yield ==
    /\ Suspended
    /\ parked' = [call |-> call, wrap |-> wrap, net |-> net, pq |-> pq]
    /\ call' = parked.call
    /\ wrap' = parked.wrap
    /\ net' = parked.net
    /\ pq' = parked.pq
    /\ UNCHANGED <<index, live, isolated, loader, bot>>

\* A message handler calls process_query: the queries of this specification.
LoopQueries == {<<"a">>, << >>}

\* The index the two queries search: a finance record with a text.
LoopSeeds == {Stored("finance", "d1", 90, <<"a">>)}

InitLoop ==
    /\ call = NoCall
    /\ wrap = WrapperIdle
    /\ net = NoRequests
    /\ index = LoopSeeds
    /\ live = LiveOf(index)
    /\ pq = PQIdle
    /\ parked = NoTask
    /\ bot = BotIdle
    /\ isolated = index
    /\ loader = LoaderIdle

NextLoop ==
    \/ ProcessQuery /\ pq'.query \in LoopQueries
    \/ LoopRequest
    \/ LoopAttempt
    \/ LoopWake
    \/ PQSearch
    \/ PQBranch
    \/ PQReturn
    \/ PQExcept
    \/ Yield

SpecLoop == InitLoop /\ [][NextLoop]_vars

(***************************************************************************)
(* telegram_bot.py : the handlers of TelegramBot, one update at a time.    *)
(* Each handler is an operator from the bot, the sender and the update's   *)
(* data to the bot after the update; a reply is named by the text it sends.*)
(***************************************************************************)
\* _is_authorized: an empty allow-list gives access to everyone.
is_authorized(b, user_id) == IF b.allowed = {} THEN TRUE ELSE user_id \in b.allowed

\* _is_admin
is_admin(b, user_id) == user_id \in b.admins

Handled(b, kind, user_id, data, reply, called) ==
    [b EXCEPT !.last = [kind |-> kind, user |-> user_id, data |-> data,
                        reply |-> reply, called |-> called]]

\* start_command: the welcome text and the keyboard, for authorized users.
start_command(b, user_id) ==
    IF ~is_authorized(b, user_id)
    THEN Handled(b, "start", user_id, "", "no_access_contact_admin", NoAgent)
    ELSE Handled(b, "start", user_id, "", "welcome_keyboard", NoAgent)

\* help_command: the help of the selected agent, or the general help.
help_command(b, user_id) ==
    IF b.user_agents[user_id] # NoAgent
    THEN Handled(b, "help", user_id, "", "agent_help", NoAgent)
    ELSE Handled(b, "help", user_id, "", "general_help", NoAgent)

\* _switch_agent, called by finance_command, legal_command, project_command.
switch_agent(b, user_id, agent_type) ==
    IF agent_type \notin BotAgents
    THEN Handled(b, "switch", user_id, agent_type, "agent_not_found", NoAgent)
    ELSE Handled([b EXCEPT !.user_agents[user_id] = agent_type,
                           !.chosen[user_id] = agent_type],
                 "switch", user_id, agent_type, "agent_welcome", NoAgent)

\* A mutant: /back leaves the selection in place.
back_command_KeepsSelection(b, user_id) ==
    Handled([b EXCEPT !.chosen[user_id] = NoAgent],
            "back", user_id, "", "select_agent_keyboard", NoAgent)

\* back_command: del self.user_agents[user_id] if present.
back_command(b, user_id) ==
    Handled([b EXCEPT !.user_agents[user_id] = NoAgent, !.chosen[user_id] = NoAgent],
            "back", user_id, "", "select_agent_keyboard", NoAgent)

\* stats_command: for admins; `failed` is whether an agent's get_stats raised.
stats_command(b, user_id, failed) ==
    IF ~is_admin(b, user_id)
    THEN Handled(b, "stats", user_id, "", "admins_only", NoAgent)
    ELSE Handled(b, "stats", user_id, "", IF failed THEN "stats_error" ELSE "stats", NoAgent)

\* button_callback: callback data that names an agent selects it; any other
\* data is answered and ignored.
button_callback(b, user_id, data) ==
    IF data \in BotAgents
    THEN Handled([b EXCEPT !.user_agents[user_id] = data, !.chosen[user_id] = data],
                 "button", user_id, data, "agent_welcome", NoAgent)
    ELSE Handled(b, "button", user_id, data, "", NoAgent)

\* The results agent.process_query may return to the handler.
QueryResults ==
    {[NoResult EXCEPT !.success = TRUE, !.answer = GeneratedText,
                      !.response_type = "knowledge_base", !.num_sources = 1],
     [NoResult EXCEPT !.success = TRUE, !.answer = Append(GeneratedText, WARNING),
                      !.response_type = "fallback"]}
    \cup {[NoResult EXCEPT !.error_code = e.error_code, !.error = Str(e),
                           !.user_message = get_user_message(e)] :
             e \in {OpenAIException(<<"Embedding generation failed">>),
                    PineconeException(<<"Vector search failed">>),
                    ChatbotException(<<"error">>, UNKNOWN_ERROR, NoDetails)}}

\* The reply the handler sends for a result of process_query.
ReplyTo(result) ==
    IF result.success
    THEN IF result.num_sources > 0 THEN "answer_with_sources_footer" ELSE "answer"
    ELSE result.user_message

\* A mutant: the handler does not check the authorization of the sender.
handle_message_NoAuthorization(b, user_id, result) ==
    IF b.user_agents[user_id] = NoAgent
    THEN Handled(b, "message", user_id, "", "select_agent_prompt", NoAgent)
    ELSE Handled(b, "message", user_id, "", ReplyTo(result), b.user_agents[user_id])

\* handle_message: authorization, then the selected agent, then
\* agent.process_query(query, user_id), which returned `result`.
handle_message(b, user_id, result) ==
    IF ~is_authorized(b, user_id)
    THEN Handled(b, "message", user_id, "", "no_access", NoAgent)
    ELSE IF b.user_agents[user_id] = NoAgent
         THEN Handled(b, "message", user_id, "", "select_agent_prompt", NoAgent)
         ELSE Handled(b, "message", user_id, "", ReplyTo(result), b.user_agents[user_id])

\* The bot handles one update.
BotStep(after) ==
    /\ bot' = after
    /\ UNCHANGED <<call, wrap, net, index, live, pq, parked, isolated, loader>>

StartCommand == \E u \in Users : BotStep(start_command(bot, u))

HelpCommand == \E u \in Users : BotStep(help_command(bot, u))

\* /finance, /legal, /project
SwitchCommand == \E u \in Users, agent_type \in BotAgents : BotStep(switch_agent(bot, u, agent_type))

BackCommand == \E u \in Users : BotStep(back_command(bot, u))

StatsCommand == \E u \in Users, failed \in BOOLEAN : BotStep(stats_command(bot, u, failed))

ButtonCallback ==
    \E u \in Users, data \in BotAgents \cup {"other"} : BotStep(button_callback(bot, u, data))

HandleMessage == \E u \in Users, result \in QueryResults : BotStep(handle_message(bot, u, result))

\* The bot starts with any allow-list (the empty one included), with or
\* without an administrator, and no selection.
InitBot ==
    /\ call = NoCall
    /\ wrap = WrapperIdle
    /\ net = NoRequests
    /\ index = {}
    /\ live = LiveOf(index)
    /\ pq = PQIdle
    /\ parked = NoTask
    /\ isolated = index
    /\ loader = LoaderIdle
    /\ \E allowed \in SUBSET Users, admins \in {{}, {1}} :
          bot = [BotIdle EXCEPT !.allowed = allowed, !.admins = admins]

NextBot ==
    \/ StartCommand
    \/ HelpCommand
    \/ SwitchCommand
    \/ BackCommand
    \/ StatsCommand
    \/ ButtonCallback
    \/ HandleMessage

SpecBot == InitBot /\ [][NextBot]_vars

(***************************************************************************)
(* Properties                                                              *)
(***************************************************************************)
\* The query is past the branch of step 4 (a generation call was started).
PastBranch == call.func \in {"generate_response", "generate_fallback_response"}

Scores(matches) == [i \in DOMAIN matches |-> matches[i].score]

\* C1: process_query never lets an exception escape and never gets stuck: an
\* unfinished query always has a next step, and a finished one has returned
\* a structured result: success with an answer and a response_type, or
\* failure with an error_code and a user_message.
C1_AlwaysStructuredResult ==
    /\ pq.pc # "escaped"
    /\ pq.pc \notin {"idle", "done"} => ENABLED Next
    /\ pq.pc = "done" =>
          IF pq.result.success
          THEN /\ pq.result.answer # << >>
               /\ pq.result.response_type \in {"knowledge_base", "fallback"}
          ELSE /\ pq.result.error_code # ""
               /\ pq.result.user_message # ""

\* A query failed after the retries of grounded generation were exhausted.
C1_Witness ==
    /\ pq.pc = "done"
    /\ ~pq.result.success
    /\ call.func = "generate_response"
    /\ net.generate = 3

\* C2: when search returned zero matches and fallback generation succeeded,
\* the result is success with response_type fallback and num_sources 0 (and
\* the generation call made for it is the fallback one).
C2_FallbackOnNoMatches ==
    (PastBranch /\ pq.matches = << >>) =>
        /\ call.func = "generate_fallback_response"
        /\ pq.pc = "done" /\ wrap.status = "returned" =>
              /\ pq.result.success
              /\ pq.result.response_type = "fallback"
              /\ pq.result.num_sources = 0

\* Records exist in the agent's namespace, none reaches the threshold, and
\* the query was answered by the fallback.
C2_Witness ==
    /\ pq.pc = "done"
    /\ pq.result.success
    /\ pq.matches = << >>
    /\ \E r \in index : r.ns = pq.namespace
    /\ net.query = 1

\* C3 as stated: whenever search returned at least one match the query takes
\* the grounded branch, never the fallback one.
C3_Original ==
    (PastBranch /\ pq.matches # << >>) =>
        /\ call.func = "generate_response"
        /\ pq.response_type = "knowledge_base"

\* C3 as amended: the branch is decided by the extracted context, i.e. by
\* the matches that carry a non-empty text: if there is one, grounded
\* generation is called with one context item per such match, in order, and
\* a successful result is knowledge_base; if there is none (also when the
\* match set is non-empty), the fallback branch is taken.
C3_GroundedIffContext ==
    PastBranch =>
        LET withText == SelectSeq(pq.matches, LAMBDA m : m.metadata.text # << >>)
        IN  IF withText # << >>
            THEN /\ call.func = "generate_response"
                 /\ Len(call.context) = Len(withText)
                 /\ \A i \in DOMAIN withText :
                       /\ call.context[i].text = withText[i].metadata.text
                       /\ call.context[i].score = withText[i].score
                 /\ pq.pc = "done" /\ wrap.status = "returned" =>
                       pq.result.response_type = "knowledge_base"
            ELSE /\ call.func = "generate_fallback_response"
                 /\ pq.pc = "done" /\ wrap.status = "returned" =>
                       pq.result.response_type = "fallback"

\* A grounded answer from a match set that mixes matches with and without text.
C3_Witness ==
    /\ pq.pc = "done"
    /\ pq.result.success
    /\ pq.result.response_type = "knowledge_base"
    /\ \E i \in DOMAIN pq.matches : pq.matches[i].metadata.text = << >>
    /\ \E i \in DOMAIN pq.matches : pq.matches[i].metadata.text # << >>

\* The search call has returned its matches.
SearchReturned == call.func = "search" /\ wrap.status = "returned"

\* C4: search returns exactly the matches of the index response (at most
\* top_k) whose score is >= similarity_threshold, in the order of the
\* response; for the response [0.9, 0.75, 0.6] it returns [0.9, 0.75].
C4_ThresholdFilter ==
    SearchReturned =>
        LET raw == call.raw
            matches == wrap.value
        IN  /\ Len(raw) <= EffectiveTopK(call.top_k)
            /\ \E s \in IndexQuery(index, call.namespace, EffectiveTopK(call.top_k)) :
                  raw = [i \in DOMAIN s |-> MatchOf(s[i])]
            /\ matches = SelectSeq(raw, LAMBDA m : m.score >= 70)
            /\ \A i \in DOMAIN matches : matches[i].score >= 70
            /\ Scores(raw) = <<90, 75, 60>> => Scores(matches) = <<90, 75>>

\* The scenario of the claim: the index answered [0.9, 0.75, 0.6].
C4_Witness ==
    /\ SearchReturned
    /\ Scores(call.raw) = <<90, 75, 60>>
    /\ Scores(wrap.value) = <<90, 75>>

\* C5: a search scoped to namespace N returns only records that are in N:
\* ids upserted into N and not deleted since, with the vector stored in N.
C5_NamespaceIsolation ==
    SearchReturned =>
        \A i \in DOMAIN wrap.value :
            /\ wrap.value[i].id \in live[call.namespace]
            /\ \E r \in index : /\ r.ns = call.namespace
                                /\ r.id = wrap.value[i].id
                                /\ r.values = wrap.value[i].score

\* A search returned matches while another namespace holds a record above the
\* threshold whose id is not in the searched namespace.
C5_Witness ==
    /\ SearchReturned
    /\ wrap.value # << >>
    /\ \E r \in index : /\ r.ns # call.namespace
                        /\ r.values >= similarity_threshold
                        /\ r.id \notin live[call.namespace]

\* A call of a decorated function is in progress or has ended.
Decorated == call.func \in {"op", "generate_embedding", "upsert_documents"}

\* C6: the wrapper never invokes the function more than max_retries times,
\* and when it raises (every attempt failed) it has invoked it exactly
\* max_retries times (3 for the decorators of the pipeline).
C6_ExactlyMaxRetriesCalls ==
    Decorated =>
        /\ net.calls <= wrap.max_retries
        /\ wrap.status = "raised" => net.calls = wrap.max_retries
        /\ wrap.status = "raised" /\ call.func # "op" => net.calls = 3

\* Exhaustion with max_retries = 3.
C6_Witness ==
    /\ call.func = "op"
    /\ wrap.status = "raised"
    /\ wrap.max_retries = 3
    /\ net.calls = 3

FailedAttempts == IF wrap.status = "returned" THEN net.calls - 1 ELSE net.calls

\* C8: after the k-th failed attempt, k < max_retries, the wrapper waits
\* delay * k, and it does not wait after the last attempt; with max_retries
\* = 3 and delay = 1 the waits on exhaustion add up to 3.
C8_LinearBackoff ==
    Decorated =>
        LET waits == IF wrap.max_retries = 0 THEN 0
                     ELSE Min(FailedAttempts, wrap.max_retries - 1)
        IN  /\ wrap.slept = [k \in 1..waits |-> wrap.delay * k]
            /\ (wrap.status = "raised" /\ wrap.max_retries = 3 /\ wrap.delay = 1)
                   => SumSeq(wrap.slept) = 3

\* Exhaustion with max_retries = 4 and delay = 2: waits of 2, 4 and 6.
C8_Witness ==
    /\ call.func = "op"
    /\ wrap.status = "raised"
    /\ wrap.slept = <<2, 4, 6>>

\* The running call was given invalid input.
InvalidInputCall ==
    \/ call.func = "generate_embedding" /\ strip(call.text) = << >>
    \/ /\ call.func = "upsert_documents"
       /\ \/ call.documents = << >>
          \/ \E i \in DOMAIN call.documents : call.documents[i].keys # FullKeys

\* C9 as stated: an invalid-input failure is surfaced after one invocation,
\* without a retry and without a backoff wait.
C9_Original ==
    InvalidInputCall => net.calls <= 1 /\ wrap.slept = << >>

\* C9 as amended: an invalid input is rejected by every invocation before
\* any request to the backend (nothing is embedded, nothing is written), but
\* the wrapper retries it like any other failure: the failure is raised
\* after 3 invocations and backoff waits of 1 and 2.
C9_InvalidInputIsRetried ==
    InvalidInputCall =>
        /\ net.embed = 0 /\ net.upsert = 0 /\ index = {}
        /\ wrap.status \in {"running", "raised"}
        /\ wrap.status = "running" => net.calls < 3
        /\ wrap.status = "raised" =>
              /\ net.calls = 3
              /\ wrap.slept = <<1, 2>>
              /\ wrap.raised.error_code \in {OPENAI_API_ERROR, PINECONE_API_ERROR}

\* An upsert whose second record is malformed was raised after three calls.
C9_Witness ==
    /\ call.func = "upsert_documents"
    /\ Len(call.documents) = 2
    /\ call.documents[1].keys = FullKeys
    /\ call.documents[2].keys # FullKeys
    /\ wrap.status = "raised"
    /\ net.calls = 3

\* C10 as stated: an empty or whitespace-only query fails with the
\* invalid-query error kind, without any backend call.
C10_Original ==
    (pq.pc = "done" /\ strip(pq.query) = << >>) =>
        /\ ~pq.result.success
        /\ pq.result.error_code = INVALID_QUERY
        /\ net.embed = 0 /\ net.query = 0 /\ net.generate = 0

\* C10 as amended: an empty or whitespace-only query ends in Failed with the
\* OpenAI API error code E101 and its fixed message, after the embedding
\* operation rejected it on each of its 3 attempts; no request to the
\* embedding backend, the index or the generation backend is made.
C10_EmptyQueryFailsAsProviderError ==
    (pq.pc # "idle" /\ strip(pq.query) = << >>) =>
        /\ call.func = "generate_embedding"
        /\ net.embed = 0 /\ net.query = 0 /\ net.generate = 0 /\ net.upsert = 0
        /\ pq.pc \in {"embed", "done"}
        /\ pq.pc = "done" =>
              /\ ~pq.result.success
              /\ pq.result.error_code = OPENAI_API_ERROR
              /\ pq.result.user_message = "msg_openai_api_error"
              /\ net.calls = 3

\* A whitespace-only query has failed.
C10_Witness ==
    /\ pq.pc = "done"
    /\ pq.query = <<" ", " ">>
    /\ ~pq.result.success

\* C11: when index.query answers and no match of the response has a score
\* >= similarity_threshold (the response may also hold no match at all), that
\* attempt of search returns the empty list: nothing is raised, and the retry
\* wrapper returns it without a further attempt or a backoff wait for it.
C11_EmptyResultIsNotAnError ==
    (call.func = "search" /\ call.answered
        /\ \A i \in DOMAIN call.raw : call.raw[i].score < similarity_threshold) =>
        /\ wrap.status = "returned"
        /\ wrap.value = << >>
        /\ wrap.raised = NoneValue
        /\ net.calls = wrap.attempt + 1
        /\ Len(wrap.slept) = wrap.attempt
        /\ ~ENABLED AttemptSearch

\* The namespace holds records, all below the threshold; the first query
\* failed, the second answered, and search returned the empty list.
C11_Witness ==
    /\ SearchReturned
    /\ call.raw # << >>
    /\ wrap.value = << >>
    /\ net.query = 2

\* The running call is an upsert whose documents pass the validation.
ValidUpsert == call.func = "upsert_documents" /\ prepare_vectors(call.documents).ok

\* The batches of the running upsert.
AllBatches == Batches(prepare_vectors(call.documents).vectors, batch_size)

\* C12: (a) every attempt of an upsert, the retries included, issues the
\* batches from the first one on, in order; (b) a batch that was written
\* stays written when a later write fails, also when the wrapper gives up:
\* every id of a batch written by any attempt has a record in the namespace,
\* carrying a vector and metadata supplied for that id; (c) once an attempt
\* succeeds, the index is what a failure-free upsert of the same list makes
\* of the index the call found: the namespace holds every supplied id exactly
\* once, with the vector and metadata supplied for it (the last ones in the
\* list when an id is supplied twice), and the count returned is the number
\* of documents.
C12_RetryRestartsAndConverges ==
    ValidUpsert =>
        LET batches == AllBatches
            ns == call.namespace
            loop == call.loop
            docs == call.documents
            InNamespace(id) == {r \in index : r.ns = ns /\ r.id = id}
        IN  /\ loop.pc = "loop" =>
                  /\ Len(loop.writes) \in {loop.i, loop.i + 1}
                  /\ \A k \in DOMAIN loop.writes :
                        loop.writes[k] = [vectors |-> batches[k], namespace |-> ns]
            /\ \A k \in 1..loop.i : \A j \in DOMAIN batches[k] :
                  batches[k][j].id \in live[ns]
            /\ \A id \in live[ns] \ {r.id : r \in call.idx0} :
                  /\ Cardinality(InNamespace(id)) = 1
                  /\ \A r \in InNamespace(id) : \E i \in DOMAIN docs :
                        /\ docs[i].id = id
                        /\ r.values = docs[i].embedding
                        /\ r.metadata = docs[i].metadata
            /\ wrap.status = "returned" =>
                  /\ index = upsert_documents(docs, ns, call.idx0, 0, NoneValue).index
                  /\ wrap.value = Len(docs)
                  /\ \A i \in DOMAIN docs :
                        (\A j \in DOMAIN docs : j > i => docs[j].id # docs[i].id) =>
                            InNamespace(docs[i].id) =
                                {[ns |-> ns, id |-> docs[i].id, values |-> docs[i].embedding,
                                  metadata |-> docs[i].metadata]}

\* 101 documents with the id d3, the last one with another vector: the first
\* attempt wrote the first batch and failed on the second, the retry wrote
\* both batches again and returned.
C12_Witness ==
    /\ ValidUpsert
    /\ wrap.status = "returned"
    /\ Len(call.documents) = 101
    /\ call.documents[1].id = "d3" /\ call.documents[1].embedding = 60
    /\ call.documents[101].id = "d3" /\ call.documents[101].embedding = 70
    /\ wrap.attempt = 1
    /\ net.upsert = 4
    /\ \E r \in call.idx0 : r.ns = call.namespace /\ r.id = "d3"

\* The concatenation of a sequence of sequences.
RECURSIVE Flatten(_)
Flatten(ss) == IF ss = << >> THEN << >> ELSE Head(ss) \o Flatten(Tail(ss))

\* C14: an upsert never has two writes in flight: write k + 1 is issued only
\* when the k writes before it have answered; no write carries more than 100
\* records; and an upsert of n valid records that returns without a failed
\* write has issued exactly ceil(n / 100) writes which, put end to end in
\* the order of issue, are the n records in input order, and returns n.
C14_SequentialBatches ==
    ValidUpsert =>
        LET loop == call.loop
            n == Len(call.documents)
        IN  /\ Cardinality(loop.inflight) <= 1
            /\ loop.inflight # {} =>
                  loop.inflight = {Len(loop.writes)} /\ Len(loop.writes) = loop.i + 1
            /\ loop.inflight = {} /\ loop.pc = "loop" => Len(loop.writes) = loop.i
            /\ \A k \in DOMAIN loop.writes :
                  /\ Len(loop.writes[k].vectors) \in 1..100
                  /\ loop.writes[k].namespace = call.namespace
            /\ (wrap.status = "returned" /\ wrap.attempt = 0) =>
                  /\ net.upsert = (n + 99) \div 100
                  /\ Len(loop.writes) = (n + 99) \div 100
                  /\ Flatten([k \in DOMAIN loop.writes |-> loop.writes[k].vectors])
                        = prepare_vectors(call.documents).vectors
                  /\ wrap.value = n

\* 201 records were upserted by three writes, none of which failed.
C14_Witness ==
    /\ ValidUpsert
    /\ wrap.status = "returned"
    /\ wrap.attempt = 0
    /\ Len(call.documents) = 201
    /\ net.upsert = 3
    /\ Len(call.loop.writes[3].vectors) = 1

\* The running upsert was given no record, or a record lacking a key.
RejectedUpsert ==
    /\ call.func = "upsert_documents"
    /\ \/ call.documents = << >>
       \/ \E i \in DOMAIN call.documents :
             \E key \in {"id", "embedding", "metadata"} : key \notin call.documents[i].keys

\* C15: an upsert given an empty list, or a list holding anywhere (beyond
\* the first 100 too) a record that lacks id, embedding or metadata, never
\* issues a write and never returns: each attempt raises a PineconeException
\* before the loop, the index stays as the call found it, and the call ends
\* by raising that error.
C15_InvalidListWritesNothing ==
    RejectedUpsert =>
        /\ net.upsert = 0
        /\ index = call.idx0
        /\ call.loop = LoopIdle
        /\ wrap.status \in {"running", "raised"}
        /\ wrap.status = "running" => ENABLED UpsertEnter
        /\ net.calls >= 1 =>
              /\ wrap.last_exception.cls = "PineconeException"
              /\ wrap.last_exception.error_code = PINECONE_API_ERROR
        /\ wrap.status = "raised" => wrap.raised = wrap.last_exception

\* A list whose 101st record lacks its embedding was rejected, and the
\* records the index held are untouched.
C15_Witness ==
    /\ RejectedUpsert
    /\ Len(call.documents) = 101
    /\ \A i \in 1..100 : call.documents[i].keys = FullKeys
    /\ "embedding" \notin call.documents[101].keys
    /\ wrap.status = "raised"
    /\ index = call.idx0
    /\ index # {}

\* The network operations of the LLM client and of the vector store.
NetworkOperations ==
    {"generate_embedding", "generate_response", "generate_fallback_response",
     "upsert_documents", "search", "delete_namespace", "get_stats"}

\* C16 as stated: a failure of any network operation is surfaced to the
\* caller only after the operation was attempted max_retries = 3 times.
C16_Original ==
    (call.func \in NetworkOperations /\ wrap.status = "raised") =>
        net.calls = decorator_max_retries

\* The running upsert or search was given a vector of another dimension
\* than the index's.
MismatchedCall ==
    \/ call.func = "search" /\ call.dim # pinecone_dimension
    \/ /\ call.func = "upsert_documents"
       /\ \E i \in DOMAIN call.documents : call.documents[i].dim # pinecone_dimension

\* C17 as stated: a dimension-mismatch failure is fatal: the wrapper raises
\* it at once, without another attempt and without a backoff wait after it.
C17_Original ==
    (MismatchedCall /\ IsDimensionMismatch(wrap.last_exception)) =>
        /\ wrap.status = "raised"
        /\ Len(wrap.slept) < wrap.attempt

\* C17 as amended: a vector of another dimension makes every attempt of the
\* upsert or search fail (the call never returns, the batch holding the
\* vector is never written, no match is returned), but the failure is
\* retried like any other one: after a mismatch failure that is not the
\* third failure the wrapper waits and attempts again, and the call raises a
\* PineconeException (E201) only after 3 invocations and waits of 1 and 2.
C17_MismatchIsRetried ==
    MismatchedCall =>
        /\ wrap.status \in {"running", "raised"}
        /\ wrap.value = << >>
        /\ call.func = "search" => ~call.answered /\ index = call.idx0
        /\ call.func = "upsert_documents" =>
              \A k \in 1..call.loop.i : \A j \in DOMAIN AllBatches[k] :
                  AllBatches[k][j].dim = pinecone_dimension
        /\ (IsDimensionMismatch(wrap.last_exception) /\ wrap.attempt < 3) =>
              /\ wrap.status = "running"
              /\ Len(wrap.slept) = wrap.attempt
              /\ wrap.slept[wrap.attempt] = wrap.attempt
        /\ wrap.status = "raised" =>
              /\ net.calls = 3
              /\ wrap.slept = <<1, 2>>
              /\ wrap.raised.cls = "PineconeException"
              /\ wrap.raised.error_code = PINECONE_API_ERROR

\* A search with a query vector of twice the index's dimension was rejected
\* by the index three times and then raised.
C17_Witness ==
    /\ call.func = "search"
    /\ call.dim = 2 * pinecone_dimension
    /\ wrap.status = "raised"
    /\ net.query = 3
    /\ IsDimensionMismatch(wrap.raised)

\* C19: when delete_namespace(N) returns, the index holds no record of N and
\* exactly the records of the other namespaces it held before; and a search
\* in a namespace into which nothing was upserted since its deletion (or
\* ever) returns no match.
C19_DeleteNamespaceFrame ==
    /\ (call.func = "delete_namespace" /\ wrap.status = "returned") =>
          /\ \A r \in index : r.ns # call.namespace
          /\ index = {r \in call.idx0 : r.ns # call.namespace}
          /\ live[call.namespace] = {}
    /\ (SearchReturned /\ live[call.namespace] = {}) =>
          /\ call.raw = << >>
          /\ wrap.value = << >>

\* A namespace holding records was deleted while the other namespace holds
\* records too.
C19_Witness ==
    /\ call.func = "delete_namespace"
    /\ wrap.status = "returned"
    /\ \E r \in call.idx0 : r.ns = call.namespace
    /\ \E r \in index : r.ns # call.namespace

\* The records of a namespace.
InNamespace(idx, ns) == {r \in idx : r.ns = ns}

\* The write requests a call of upsert_documents has issued go to the
\* namespace it was called with.
WritesOwnNamespace(c) ==
    \A k \in DOMAIN c.loop.writes : c.loop.writes[k].namespace = c.namespace

\* C18: whatever the interleaving of two coroutines working on different
\* namespaces (upserts with several batches and retries, searches, deletes),
\* each namespace holds what the operations called with it alone make it
\* hold, an answered search returns what a query of its namespace so made
\* returns, and every batch write goes to the namespace of its call.
C18_NamespacesDoNotInterfere ==
    /\ \A ns \in Namespaces : InNamespace(index, ns) = InNamespace(isolated, ns)
    /\ WritesOwnNamespace(call)
    /\ WritesOwnNamespace(parked.call)
    /\ \A c \in {call, parked.call} :
          (c.func = "search" /\ c.answered)
              => \E s \in IndexQuery(InNamespace(isolated, c.namespace), c.namespace,
                                     EffectiveTopK(c.top_k)) :
                    c.raw = [i \in DOMAIN s |-> MatchOf(s[i])]

\* C18 witness: a search of one namespace was answered with a record while
\* the other coroutine is suspended in a retried upsert to the other
\* namespace, between its two batch writes.
C18_Witness ==
    /\ call.func = "search"
    /\ call.answered
    /\ call.raw # << >>
    /\ parked.call.func = "upsert_documents"
    /\ parked.call.namespace # call.namespace
    /\ parked.wrap.attempt >= 1
    /\ parked.call.loop.pc = "loop"
    /\ parked.call.loop.i = 1
    /\ InNamespace(index, parked.call.namespace) # {}

\* C20 as stated: every chunk of a file that was split has a text of at most
\* chunk_size characters.
C20_Original ==
    loader.pc = "chunks"
        => \A i \in DOMAIN loader.chunks : TextLen(loader.chunks[i].text) <= chunk_size

\* The file was loaded twice, every chunk embedded and upserted both times.
LoadedTwice ==
    /\ loader.pc = "done"
    /\ Len(loader.history) = 2
    /\ loader.history[1].skipped = 0
    /\ loader.history[2].skipped = 0

\* C13: when a file was loaded twice into a namespace, every embedding call
\* answering, the namespace holds after the second load the ids it held after
\* the first; these are one id per chunk, no two chunks sharing one, and
\* the id of each record is the one its source, chunk_index and first
\* hundred characters give.
C13_ReingestionKeepsIds ==
    LoadedTwice =>
        /\ loader.history[2].ids = loader.history[1].ids
        /\ IdsIn(index, loader.namespace) = loader.history[1].ids
        /\ Cardinality(loader.history[1].ids) = Len(loader.chunks)
        /\ \A r \in index :
              r.id = [source |-> r.metadata.source,
                      chunk_index |-> r.metadata.chunk_index,
                      head |-> TakeFirst(r.metadata.text, 100)]

\* C13 witness: a file of two chunks that begin with the same hundred
\* characters was loaded twice, and the namespace holds two records.
C13_Witness ==
    /\ LoadedTwice
    /\ Len(loader.chunks) = 2
    /\ TakeFirst(loader.chunks[1].text, 100) = TakeFirst(loader.chunks[2].text, 100)
    /\ loader.result = 2
    /\ Cardinality(index) = 2

\* a is the beginning of b.
IsPrefix(a, b) == TextLen(a) <= TextLen(b) /\ TakeFirst(b, TextLen(a)) = a

\* The whitespace str.strip() took from the end of a chunk: the blank line
\* after a paragraph, the space after a sentence.
StrippedTails == {Word("\n", 2), Word(" ", 1)}

\* C21: when chunk i+1 was begun by a paragraph that did not fit, its text
\* begins with the end of chunk i (some of the last chunk_overlap characters
\* of its text, at least one, followed by the whitespace that followed it)
\* and goes on with that paragraph.
C21_OverlapSeedsNextChunk ==
    loader.pc = "chunks" =>
        \A i \in 1..(Len(loader.chunks) - 1) :
            loader.openings[i + 1].path = "overlap" =>
                \E tail \in StrippedTails :
                    LET seed == TextLStrip(TakeLast(Join(loader.chunks[i].text, tail),
                                                    chunk_overlap))
                    IN  /\ TextLen(seed) > TextLen(tail)
                        /\ TextLen(seed) <= chunk_overlap
                        /\ IsPrefix(Join(seed, loader.openings[i + 1].piece),
                                    loader.chunks[i + 1].text)

\* C21 witness: a file was split, and one of its chunks was begun with the
\* last characters of a chunk longer than chunk_overlap.
C21_Witness ==
    /\ loader.pc = "chunks"
    /\ \E i \in 1..(Len(loader.chunks) - 1) :
          /\ loader.openings[i + 1].path = "overlap"
          /\ TextLen(loader.chunks[i].text) > chunk_overlap

\* t[k:]
RECURSIVE DropFirst(_, _)
DropFirst(t, k) ==
    IF k = 0 \/ t = << >> THEN t
    ELSE IF Head(t).n > k
         THEN <<Run(Head(t).c, Head(t).n - k)>> \o Tail(t)
         ELSE DropFirst(Tail(t), k - Head(t).n)

\* The text of chunk i without the characters seeded from the chunk before.
CoreText(i) ==
    DropFirst(loader.chunks[i].text, TextLen(TextLStrip(loader.openings[i].overlap_text)))

\* What may stand between the remainders of two chunks when they are
\* concatenated: a blank line, a space, nothing.
Glues == {Word("\n", 2), Word(" ", 1), << >>}

\* C22 as stated: the remainders of the chunks, concatenated, are the
\* non-empty paragraphs of the document, each once and in order.
C22_Original ==
    loader.pc = "chunks" =>
        \E glue \in Glues :
            Paragraphs(JoinWith([i \in DOMAIN loader.chunks |-> CoreText(i)], glue))
                = Paragraphs(TextStrip(loader.file.text))

\* C23: a file whose text is empty or whitespace only is split into no
\* chunk, and no chunk of any file has an empty text.
C23_NoEmptyChunk ==
    loader.pc = "chunks" =>
        /\ (\A i \in DOMAIN loader.file.text : loader.file.text[i].c \in Whitespace)
              => loader.chunks = << >>
        /\ \A i \in DOMAIN loader.chunks : TextLen(loader.chunks[i].text) > 0

\* C23 witness: a text of whitespace only was split into no chunk.
C23_Witness ==
    /\ loader.pc = "chunks"
    /\ loader.file.text # << >>
    /\ \A i \in DOMAIN loader.file.text : loader.file.text[i].c \in Whitespace
    /\ loader.chunks = << >>

\* C24: the chunks of a file carry the chunk_index values 0, 1, 2, ... in
\* the order of the list.
C24_ChunkIndexCounts ==
    loader.pc = "chunks" =>
        \A i \in DOMAIN loader.chunks : loader.chunks[i].metadata.chunk_index = i - 1

\* C24 witness: a file was split into at least three chunks, one begun by a
\* sentence of an oversized paragraph and one begun with an overlap.
C24_Witness ==
    /\ loader.pc = "chunks"
    /\ Len(loader.chunks) >= 3
    /\ \E i \in DOMAIN loader.openings : loader.openings[i].path = "sentence"
    /\ \E i \in DOMAIN loader.openings : loader.openings[i].path = "overlap"

\* C25 as stated: char_count is the length of the chunk's text.
C25_Original ==
    loader.pc = "chunks" =>
        \A i \in DOMAIN loader.chunks :
            loader.chunks[i].metadata.char_count = TextLen(loader.chunks[i].text)

\* The document of the scenario was split.
ScenarioSplit == loader.pc = "chunks" /\ TextLen(loader.file.text) = ScenarioLength

\* The paragraphs of the file that was read.
FileParagraphs == Paragraphs(TextStrip(loader.file.text))

Answered == pq.pc = "done" /\ pq.result.success

\* C27: an answer returned as "fallback" ends with the warning and was
\* generated by the call that is given no context; an answer returned as
\* "knowledge_base" is the text of the chat model with no warning in it.
C27_DisclaimerOnFallbackOnly ==
    Answered =>
        /\ pq.result.response_type = "fallback"
              => /\ pq.result.answer # << >>
                 /\ pq.result.answer[Len(pq.result.answer)] = WARNING
                 /\ call.func = "generate_fallback_response"
                 /\ call.context = << >>
        /\ pq.result.response_type = "knowledge_base"
              => /\ \A i \in DOMAIN pq.result.answer : pq.result.answer[i] # WARNING
                 /\ call.func = "generate_response"
                 /\ call.context # << >>

\* C27 witness: search returned a match without text, so that the query was
\* answered by the fallback, after a retry of the generation.
C27_Witness ==
    /\ Answered
    /\ pq.result.response_type = "fallback"
    /\ pq.matches # << >>
    /\ wrap.attempt >= 1

\* The fixed message of each classified error code.
FixedMessages ==
    (NO_DATA_FOUND :> "msg_no_data_found") @@ (OPENAI_API_ERROR :> "msg_openai_api_error")
    @@ (OPENAI_RATE_LIMIT :> "msg_openai_rate_limit")
    @@ (PINECONE_API_ERROR :> "msg_pinecone_api_error")
    @@ (INVALID_QUERY :> "msg_invalid_query")
    @@ (UNAUTHORIZED_USER :> "msg_unauthorized_user")
    @@ (AGENT_NOT_FOUND :> "msg_agent_not_found")

\* The query ended in the except clause.
Failed == pq.pc = "done" /\ ~pq.result.success

\* C28: the user_message of a failed result is determined by its error_code
\* alone: the fixed message of a classified code, the generic message for any
\* other code (E001 included), and never a piece of the error's own text.
C28_UserMessageByCodeAlone ==
    Failed =>
        LET code == pq.result.error_code
        IN  /\ pq.result.user_message =
                   (IF code \in DOMAIN FixedMessages THEN FixedMessages[code]
                                                     ELSE "msg_generic")
            /\ pq.result.user_message \notin Range(pq.result.error)

\* A query failed outside the three calls (a match without metadata broke the
\* context extraction): code E001, the generic message, the AttributeError's
\* text only in `error`.
C28_Witness ==
    /\ Failed
    /\ pq.result.error_code = UNKNOWN_ERROR
    /\ pq.result.error = Str(NoneHasNoGet)
    /\ pq.result.user_message = "msg_generic"
    /\ wrap.status = "returned"

\* The seconds the query spent in the backoff waits of its retry wrappers: a
\* lower bound of the duration process_query measures.
Waited == SumSeq(Flatten(pq.slept))

\* The waits one decorated call can have made before it returned: none, one
\* after a first failure, two after a second.
WaitsBeforeSuccess ==
    {<< >>, <<decorator_delay>>, <<decorator_delay, 2 * decorator_delay>>}

Attempts(func) == call.func = func /\ net'.calls = net.calls + 1

GenerationModes == {"generate_response", "generate_fallback_response"}

\* C30: the steps of a query come in the order embed, search, generate.  An
\* embedding attempt is made before any search or generation request; a
\* search attempt is made only once the embedding returned (the search is
\* given the vector it returned) and before any generation request; a
\* generation attempt is made only once the search returned (the context is
\* the one extracted from its matches); and a query that started one
\* generation mode never starts the other.
C30_EmbedSearchGenerateInOrder ==
    [][/\ Attempts("generate_embedding")
          => pq.pc = "embed" /\ net.query = 0 /\ net.generate = 0
       /\ Attempts("search")
          => /\ pq.pc = "search" /\ Len(pq.slept) = 1
             /\ net.embed >= 1 /\ net.generate = 0
             /\ call.text = EmbeddingOf(strip(pq.query))
       /\ \A g \in GenerationModes :
             Attempts(g)
                => /\ pq.pc = "generate" /\ Len(pq.slept) = 2
                   /\ net.embed >= 1 /\ net.query >= 1
                   /\ pq.context = extract_context_from_matches(pq.matches)
       /\ call.func \in GenerationModes => call'.func = call.func]_vars

\* A query that went through all three steps, each of them retried.
C30_Witness ==
    /\ Answered
    /\ net.embed >= 2 /\ net.query >= 2 /\ net.generate >= 2
    /\ pq.result.response_type = "knowledge_base"

\* The terminal states of a query.
AnsweredAs(response_type) == Answered /\ pq.result.response_type = response_type

Terminal == AnsweredAs("knowledge_base") \/ AnsweredAs("fallback") \/ Failed

\* C31: every started query ends, in exactly one of Answered(knowledge_base),
\* Answered(fallback) and Failed, and stays there; a query is over the
\* response-time target exactly when the warning was logged for it, and it
\* ends like any other.
C31_EveryQueryEnds ==
    /\ (pq.pc # "idle") ~> Terminal
    /\ [](pq.pc = "done" => /\ Terminal
                            /\ ~(Answered /\ Failed)
                            /\ ~(AnsweredAs("knowledge_base") /\ AnsweredAs("fallback")))
    /\ [][pq.pc = "done" => pq' = pq]_vars
    /\ [](pq.warned <=> pq.pc = "done" /\ Duration(pq.slept) > max_response_time)

\* A query that was answered although its duration was over the target: the
\* warning was logged.
C31_Witness ==
    /\ AnsweredAs("fallback")
    /\ pq.warned
    /\ Duration(pq.slept) > max_response_time

\* C32, as stated: in a successful result num_sources is the number of
\* similarity scores, one per match that search returned.
C32_Original ==
    Answered =>
        /\ Len(pq.result.similarity_scores) = Len(pq.matches)
        /\ pq.result.num_sources = Len(pq.result.similarity_scores)

\* The matches of the query that carry a text.
WithText == {i \in DOMAIN pq.matches : pq.matches[i].metadata.text # << >>}

\* C32, amended: a successful result has one similarity score and one source
\* per match that search returned, in the order of the matches, while
\* num_sources counts only the matches that carry a text: it is at most the
\* number of scores, and equal to it exactly when every match has a text.
C32_NumSourcesCountsMatchesWithText ==
    Answered =>
        /\ pq.result.similarity_scores = Scores(pq.matches)
        /\ Len(pq.result.sources) = Len(pq.matches)
        /\ pq.result.num_sources = Cardinality(WithText)
        /\ pq.result.num_sources <= Len(pq.result.similarity_scores)

\* A grounded answer whose result counts one source and lists two scores.
C32_Witness ==
    /\ AnsweredAs("knowledge_base")
    /\ pq.result.num_sources = 1
    /\ Len(pq.result.similarity_scores) = 2

\* C33: when a decorated call returns, the attempt that succeeded is the
\* k-th, k <= max_retries: the wrapper has invoked the function exactly k
\* times, returns what the k-th invocation returned, has raised nothing and
\* has made exactly k - 1 backoff waits (one after each failed attempt).
C33_ReturnsOnFirstSuccess ==
    (Decorated /\ wrap.status = "returned") =>
        LET k == wrap.attempt + 1
        IN  /\ k <= wrap.max_retries
            /\ net.calls = k
            /\ call.func = "op" => wrap.value = <<"result of invocation", k>>
            /\ call.func = "generate_embedding" => wrap.value = EmbeddingOf(strip(call.text))
            /\ wrap.raised = NoneValue
            /\ Len(wrap.slept) = k - 1
            /\ (k > 1) = (wrap.last_exception # NoneValue)

\* The function succeeded on its third invocation, after two waits.
C33_Witness ==
    /\ call.func = "op"
    /\ wrap.status = "returned"
    /\ wrap.value = <<"result of invocation", 3>>
    /\ Len(wrap.slept) = 2
    /\ wrap.max_retries > 3

\* The decorated call `func` of the query ended with `status`.
Ended(func, status) == \E i \in DOMAIN pq.ended : pq.ended[i] = [func |-> func, status |-> status]

\* A decorated call of the query raised (after its retries).
SomeCallRaised == \E i \in DOMAIN pq.ended : pq.ended[i].status = "raised"

\* C34: the fallback generation is called only after the embedding and the
\* search have returned and the context extracted from the matches is empty;
\* and once the embedding, the search or the grounded generation has raised,
\* the query is Failed, with no answer, and the fallback was never called.
C34_FallbackOnlyOnEmptyContext ==
    /\ call.func = "generate_fallback_response"
          => /\ Len(pq.ended) >= 2
             /\ pq.ended[1] = [func |-> "generate_embedding", status |-> "returned"]
             /\ pq.ended[2] = [func |-> "search", status |-> "returned"]
             /\ extract_context_from_matches(pq.matches) = << >>
             /\ ~Ended("generate_response", "returned")
             /\ ~Ended("generate_response", "raised")
    /\ \A f \in {"generate_embedding", "search", "generate_response"} :
          Ended(f, "raised")
             => /\ Failed
                /\ pq.result.answer = << >>
                /\ pq.result.response_type = ""
                /\ call.func = f
                /\ ~Ended("generate_fallback_response", "returned")

\* The grounded generation failed three times: the query is Failed.
C34_Witness ==
    /\ Ended("generate_response", "raised")
    /\ Failed
    /\ net.generate = 3

\* C35: a successful result is "knowledge_base" exactly when it counts at
\* least one source and "fallback" exactly when it counts none.
C35_ResponseTypeMatchesNumSources ==
    Answered =>
        /\ pq.result.response_type \in {"knowledge_base", "fallback"}
        /\ (pq.result.response_type = "knowledge_base") <=> (pq.result.num_sources > 0)
        /\ (pq.result.response_type = "fallback") <=> (pq.result.num_sources = 0)

\* A fallback answer that counts no source although search returned a match.
C35_Witness ==
    /\ AnsweredAs("fallback")
    /\ pq.result.num_sources = 0
    /\ Len(pq.result.similarity_scores) = 1

\* C36: the error_code of a failed result tells the step that failed and
\* nothing else: E101 when the embedding or a generation raised, E201 when
\* the search raised, E001 when no decorated call raised (the exception came
\* from the code between the calls); an empty query, a rate limit and a
\* timeout all get the code of the step they failed.
C36_ErrorCodeByFailingStep ==
    Failed =>
        /\ Ended("generate_embedding", "raised") => pq.result.error_code = OPENAI_API_ERROR
        /\ Ended("search", "raised") => pq.result.error_code = PINECONE_API_ERROR
        /\ \A g \in GenerationModes :
              Ended(g, "raised") => pq.result.error_code = OPENAI_API_ERROR
        /\ (pq.result.error_code = UNKNOWN_ERROR) <=> ~SomeCallRaised

\* The search failed three times, the last time on a timeout: E201.
C36_Witness ==
    /\ Failed
    /\ Ended("search", "raised")
    /\ pq.result.error_code = PINECONE_API_ERROR
    /\ pq.result.error[Len(pq.result.error)] = "request timed out"

\* The parked coroutine is in the middle of a query.
ParkedInQuery == parked.pq.pc \in {"embed", "search", "generate"}

\* C37: the event loop passes from one query to another only while the
\* running one awaits the backend request of its embed, search or generate
\* call (or is not in a query); and while a query is in the wrapper's wait
\* between two attempts the only step taken is the end of that wait: the
\* other coroutine, the index and the query's own calls stay as they are.
C37_BackoffWaitBlocksTheLoop ==
    [][/\ (parked' # parked)
          => \/ pq.pc \in {"idle", "done"}
             \/ /\ AtBackend
                /\ call.func \in {"generate_embedding", "search"} \cup GenerationModes
       /\ Sleeping
          => /\ parked' = parked
             /\ <<call', wrap', net', index'>> = <<call, wrap, net, index>>
             /\ pq' = [pq EXCEPT !.woken = AttemptId]]_vars

\* One query is in the wait after a failed attempt while the other one is
\* parked at the await of a backend request.
C37_Witness ==
    /\ Sleeping
    /\ ParkedInQuery
    /\ parked.wrap.status = "running"
    /\ parked.pq.requested = <<Len(parked.pq.ended) + 1, parked.wrap.attempt>>

\* The last update was a text message.
MessageHandled == bot.last.kind = "message"

\* C38: with a non-empty allow-list, a text message of a user who is not on
\* it calls no process_query, whatever that user selected before (a
\* selection is made without any check); with an empty allow-list the
\* message of any user who has a selection calls process_query.
C38_UnlistedUserNeverQueries ==
    MessageHandled =>
        LET u == bot.last.user
        IN  /\ (bot.allowed # {} /\ u \notin bot.allowed)
                  => bot.last.called = NoAgent /\ bot.last.reply = "no_access"
            /\ (bot.allowed = {} /\ bot.user_agents[u] # NoAgent)
                  => bot.last.called = bot.user_agents[u]

\* A user who is not on the allow-list has selected an agent, and their
\* message was refused.
C38_Witness ==
    /\ MessageHandled
    /\ bot.allowed # {}
    /\ bot.last.user \notin bot.allowed
    /\ bot.user_agents[bot.last.user] # NoAgent
    /\ bot.last.called = NoAgent

\* A selection of one user is never changed by an update of another user.
OwnSelectionOnly ==
    \A u \in Users : u # bot'.last.user => bot'.user_agents[u] = bot.user_agents[u]

\* C39, as stated: a message calls process_query only for a sender who has a
\* selection, and then the agent selected last; after /back the sender has
\* no selection; a message of a sender without a selection gets the
\* select-agent prompt and no call; no update changes another user's
\* selection.
C39_Original ==
    /\ [](MessageHandled
            => LET u == bot.last.user
               IN  /\ bot.last.called # NoAgent
                         => bot.chosen[u] # NoAgent /\ bot.last.called = bot.chosen[u]
                   /\ bot.chosen[u] = NoAgent
                         => /\ bot.last.called = NoAgent
                            /\ bot.last.reply = "select_agent_prompt")
    /\ [](bot.last.kind = "back" => bot.user_agents[bot.last.user] = NoAgent)
    /\ [][OwnSelectionOnly]_vars

\* C39, amended: as stated, except that the select-agent prompt is the reply
\* to the authorized senders only: the message of a sender who is not on a
\* non-empty allow-list gets the no-access reply, with or without a
\* selection, and never a call.
C39_MessageGoesToSelectedAgent ==
    /\ [](MessageHandled
            => LET u == bot.last.user
               IN  /\ bot.last.called # NoAgent
                         => bot.chosen[u] # NoAgent /\ bot.last.called = bot.chosen[u]
                   /\ bot.chosen[u] = NoAgent
                         => /\ bot.last.called = NoAgent
                            /\ bot.last.reply =
                                  (IF is_authorized(bot, u) THEN "select_agent_prompt"
                                                            ELSE "no_access"))
    /\ [](bot.last.kind = "back"
            => /\ bot.user_agents[bot.last.user] = NoAgent
               /\ bot.chosen[bot.last.user] = NoAgent)
    /\ [][OwnSelectionOnly]_vars

\* A message went to the agent its sender selected while the other user has
\* another selection.
C39_Witness ==
    /\ MessageHandled
    /\ bot.last.called = "legal"
    /\ bot.chosen[bot.last.user] = "legal"
    /\ \E u \in Users : u # bot.last.user /\ bot.user_agents[u] = "finance"

\* The loop over the chunks of the file is over.
LoopOver ==
    \/ loader.pc \in {"upsert", "done", "raised"}
    \/ loader.pc = "chunks" /\ loader.k > Len(loader.chunks)

\* The chunk_index of the chunks whose embedding call returned, in order.
EmbeddedChunks ==
    LET kept == SelectSeq([i \in DOMAIN loader.outcomes |-> i],
                          LAMBDA i : loader.outcomes[i] = "returned")
    IN  [j \in DOMAIN kept |-> loader.chunks[kept[j]].metadata.chunk_index]

\* C40: when a file is ingested, every chunk gets its embedding call, the
\* chunks whose call raised (after its retries) are skipped and the others
\* make the documents, in order; upsert_documents is called at most once
\* per file, only with a non-empty list, which is the list of these
\* documents, and a successful upsert leaves them in the namespace; the
\* count returned is the number of documents handed to upsert_documents.
C40_FailedChunkIsSkipped ==
    /\ Len(loader.handed) <= 1
    /\ \A i \in DOMAIN loader.handed : loader.handed[i] # << >>
    /\ loader.skipped =
          Cardinality({i \in DOMAIN loader.outcomes : loader.outcomes[i] = "raised"})
    /\ LoopOver =>
          /\ Len(loader.outcomes) = Len(loader.chunks)
          /\ [j \in DOMAIN loader.documents |-> loader.documents[j].metadata.chunk_index]
                = EmbeddedChunks
    /\ loader.pc \in {"upsert", "done", "raised"} =>
          /\ loader.handed = IF loader.documents = << >> THEN << >>
                                                        ELSE <<loader.documents>>
    /\ loader.pc = "done" =>
          /\ loader.result = IF loader.handed = << >> THEN 0 ELSE Len(loader.handed[1])
          /\ \A j \in DOMAIN loader.documents :
                loader.documents[j].id \in IdsIn(index, loader.namespace)

\* C40 witness: the embedding of one chunk of a file failed, the other chunk
\* was embedded and upserted, and load_text_file returned 1.
C40_Witness ==
    /\ loader.pc = "done"
    /\ loader.outcomes = <<"raised", "returned">>
    /\ Len(loader.handed) = 1
    /\ loader.result = 1
    /\ Cardinality(IdsIn(index, loader.namespace)) = 1

====
